---- MODULE Spec2Model ----
(***************************************************************************)
(* A model of the Chord DHT node of src/chord_node.py: the overlay         *)
(* maintenance protocol (join, stabilize, notify, successor lists,         *)
(* fingers, failure handling) and the replicated key-value store layered   *)
(* on it (Put, SyncReplica, Get, key hand-off, replica promotion).         *)
(*                                                                         *)
(* Every gRPC handler and every iteration of a background loop is one      *)
(* action.  A handler that calls other nodes synchronously (a forwarded    *)
(* Put, the SyncReplica fan-out, the GetSuccessor walk of                  *)
(* _build_successor_list, the Notify of _stabilize) is modelled together   *)
(* with the remote handlers it runs, as one step.  An RPC to a node that   *)
(* is not running, or to a node whose lock is held by the calling chain,   *)
(* raises at the caller, as the grpc timeout / UNAVAILABLE error does.     *)
(***************************************************************************)
EXTENDS Integers, Sequences, FiniteSets, TLC

\* ---------------------------------------------------------------- sizes

\* Identifier bit-width of the modelled ring (the code's default is 32).
m == 3

\* Longest chain of nested Get / Put / Join RPCs that completes before the
\* callers' timeouts expire.
MaxDepth == 5

\* Largest version a client Put may produce in the model.
MaxVersion == 3

\* self.max_nodes
max_nodes == 2 ^ m

\* replication_factor (default of ChordNode.__init__ and of --replication)
replication_factor == 3

\* ---------------------------------------------------------------- universe

None == "none"

\* The processes (host:port endpoints) that may take part in a ring.
Node == {"n1", "n2", "n3", "n4", "n5"}

\* int.from_bytes(sha1(s)[:8]) of the endpoints and of the keys; SHA-1 is
\* an arbitrary but fixed function, tabulated here.
Sha1 ==
    [s \in Node \cup {"alpha", "x"} |->
        CASE s = "n1" -> 8
          [] s = "n2" -> 18
          [] s = "n3" -> 28
          [] s = "n4" -> 37
          [] s = "n5" -> 47
          [] s = "alpha" -> 33
          [] s = "x" -> 19]

Key == {"alpha", "x"}
Value == {"v1", "v2"}

\* _hash
hash(s) == Sha1[s] % max_nodes

\* NodeInfo.id of the NodeInfo of process n
Id(n) == hash(n)

\* ---------------------------------------------------------------- state

VARIABLES
    phase,           \* per process: "off", "listening" (server up), "joining"
                     \* (Join sent, reply not yet applied), "running"
                     \* (background threads started), "crashed"
    successor,       \* self.successor
    predecessor,     \* self.predecessor (None when absent)
    successor_list,  \* self.successor_list
    finger_table,    \* self.finger_table
    next_finger,     \* next_finger of _fix_fingers_loop
    data_store,      \* self.data_store: key -> DataItem
    replica_store,   \* self.replica_store: key -> DataItem
    is_initialized,  \* self.is_initialized
    join_address,    \* the join address the process was started with
    join_reply,      \* the JoinResponse in flight to a joining process
    handoff,         \* started _redistribute_keys_on_join threads: <<node, new_node>>
    now,             \* time.time() in milliseconds
    calls,           \* forwarded Put RPCs and blocked SyncReplica handlers in flight
    last,            \* the last request served to a client and its response
    acked            \* per key: value of the latest client Put answered success

routing == <<phase, successor, predecessor, successor_list, join_address,
             join_reply>>
fingers == <<finger_table, next_finger>>
stores == <<data_store, replica_store>>
history == <<last, acked>>
vars == <<phase, successor, predecessor, successor_list, finger_table,
          next_finger, data_store, replica_store, is_initialized,
          join_address, join_reply, handoff, now, calls, last, acked>>

\* ---------------------------------------------------------------- helpers

\* _in_range without the wrap-around branch
in_range_NoWrap(key, start, end, inclusive) ==
    IF start = end THEN inclusive
    ELSE IF inclusive THEN start < key /\ key <= end
    ELSE start < key /\ key < end

\* _in_range
in_range(key, start, end, inclusive) ==
    IF start = end THEN inclusive
    ELSE IF start < end
         THEN IF inclusive THEN start < key /\ key <= end
                           ELSE start < key /\ key < end
         ELSE IF inclusive THEN key > start \/ key <= end
                           ELSE key > start \/ key < end

\* _is_node_alive: Ping is answered by every process whose server is up.
is_node_alive(n) == phase[n] \in {"listening", "joining", "running"}

\* A peer that always answers in time
Reachable_Always(n, held) == TRUE

\* An RPC that takes the callee's lock completes unless the callee is down
\* or its lock is held by a handler of the calling chain (held).
Reachable(n, held) == is_node_alive(n) /\ n \notin held

\* chord_pb2.DataItem
DataItem(v, ver, ts) == [value |-> v, version |-> ver, timestamp |-> ts]

\* d[k] = item for a dict d
DictPut(d, k, item) == (k :> item) @@ d

\* del d[k]
DictDel(d, k) == [x \in (DOMAIN d) \ {k} |-> d[x]]

\* {} as a dict
EmptyDict == [k \in {} |-> None]

\* s[:n]
Prefix(s, n) == SubSeq(s, 1, IF n < Len(s) THEN n ELSE Len(s))

\* ---------------------------------------------------------------- routing

\* _build_successor_list, started with self.successor = first; the loop
\* state is (successors, current, seen_ids, i).
RECURSIVE BuildLoop(_, _, _, _, _)
BuildLoop(self, successors, current, seen_ids, i) ==
    IF i >= replication_factor * 2 THEN successors
    ELSE IF Len(successors) >= replication_factor - 1 THEN successors
    ELSE IF Id(current) \in seen_ids THEN successors
    ELSE IF is_node_alive(current)
         THEN LET added == Append(successors, current)
                  seen == seen_ids \cup {Id(current)}
                  resp_node == successor[current]
              IN  IF Id(resp_node) \in seen THEN added
                  ELSE BuildLoop(self, added, resp_node, seen, i + 1)
         ELSE \* GetSuccessor on a dead node raises: break
              successors

build_successor_list(self, first) ==
    IF Id(first) = Id(self) THEN <<>>
    ELSE BuildLoop(self, <<>>, first, {Id(self)}, 0)

\* The first entry of a list that is not self (by id) and answers Ping.
FirstAlive(self, list) ==
    LET ok == {i \in 1..Len(list) :
                  Id(list[i]) # Id(self) /\ is_node_alive(list[i])}
    IN  IF ok = {} THEN None
        ELSE list[CHOOSE i \in ok : \A j \in ok : i <= j]

\* _handle_successor_failure: the new (successor, successor_list)
handle_successor_failure(self) ==
    LET succ == FirstAlive(self, successor_list[self])
    IN  IF succ # None
        THEN [successor |-> succ,
              successor_list |-> build_successor_list(self, succ)]
        ELSE [successor |-> self, successor_list |-> <<self>>]

\* _closest_preceding_finger that looks at the successor list only
closest_preceding_finger_ListOnly(self, key_id) ==
    LET ss == {i \in 1..Len(successor_list[self]) :
                  /\ Id(successor_list[self][i]) # Id(self)
                  /\ in_range(Id(successor_list[self][i]), Id(self), key_id,
                              FALSE)
                  /\ is_node_alive(successor_list[self][i])}
    IN  IF ss # {}
        THEN successor_list[self][CHOOSE i \in ss : \A j \in ss : i <= j]
        ELSE self

\* _closest_preceding_finger without the liveness probes
closest_preceding_finger_NoProbe(self, key_id) ==
    LET good(f) == Id(f) # Id(self) /\ in_range(Id(f), Id(self), key_id, FALSE)
        fs == {i \in 0..(m - 1) :
                  finger_table[self][i] # None /\ good(finger_table[self][i])}
        ss == {i \in 1..Len(successor_list[self]) :
                  good(successor_list[self][i])}
    IN  IF fs # {}
        THEN finger_table[self][CHOOSE i \in fs : \A j \in fs : i >= j]
        ELSE IF ss # {}
        THEN successor_list[self][CHOOSE i \in ss : \A j \in ss : i <= j]
        ELSE self

\* _closest_preceding_finger
closest_preceding_finger(self, key_id) ==
    LET good(f) == /\ Id(f) # Id(self)
                   /\ in_range(Id(f), Id(self), key_id, FALSE)
                   /\ is_node_alive(f)
        fs == {i \in 0..(m - 1) :
                  finger_table[self][i] # None /\ good(finger_table[self][i])}
        ss == {i \in 1..Len(successor_list[self]) :
                  good(successor_list[self][i])}
    IN  IF fs # {}
        THEN finger_table[self][CHOOSE i \in fs : \A j \in fs : i >= j]
        ELSE IF ss # {}
        THEN successor_list[self][CHOOSE i \in ss : \A j \in ss : i <= j]
        ELSE self

\* FindSuccessor that works on the key_id of the request as it is
RECURSIVE FindSuccessor_NoReduce(_, _, _)
FindSuccessor_NoReduce(self, key, held) ==
    LET local == [node |-> successor[self], path |-> <<Id(self)>>, hops |-> 1]
    IN  IF in_range(key, Id(self), Id(successor[self]), TRUE) THEN local
        ELSE LET next_node == closest_preceding_finger(self, key)
             IN  IF Id(next_node) = Id(self) THEN local
                 ELSE IF ~Reachable(next_node, held) THEN local
                 ELSE LET response == FindSuccessor_NoReduce(next_node, key, held)
                      IN  [node |-> response.node,
                           path |-> <<Id(self)>> \o response.path,
                           hops |-> response.hops + 1]

\* FindSuccessor handler at self; held is the set of processes whose lock is
\* held by the calling chain.
RECURSIVE FindSuccessor(_, _, _)
FindSuccessor(self, key, held) ==
    LET key_id == key % max_nodes
        local == [node |-> successor[self], path |-> <<Id(self)>>, hops |-> 1]
    IN  IF in_range(key_id, Id(self), Id(successor[self]), TRUE) THEN local
        ELSE LET next_node == closest_preceding_finger(self, key_id)
             IN  IF Id(next_node) = Id(self) THEN local
                 ELSE IF ~Reachable(next_node, held) THEN local
                 ELSE LET response == FindSuccessor(next_node, key_id, held)
                      IN  [node |-> response.node,
                           path |-> <<Id(self)>> \o response.path,
                           hops |-> response.hops + 1]

\* Join handler that answers itself as the successor of the joining node
RECURSIVE Join_ReplySelf(_, _, _)
Join_ReplySelf(self, joining_node, depth) ==
    IF \/ in_range(Id(joining_node), Id(self), Id(successor[self]), FALSE)
       \/ Id(successor[self]) = Id(self)
    THEN [acceptor |-> self, successor |-> self, success |-> TRUE]
    ELSE IF is_node_alive(successor[self]) /\ depth < MaxDepth
         THEN Join_ReplySelf(successor[self], joining_node, depth + 1)
         ELSE [acceptor |-> None, successor |-> None, success |-> FALSE]

\* Join handler at self for a joining NodeInfo with id new_id: the member
\* that splices the node in, the JoinResponse, and the number of times the
\* request was forwarded.
RECURSIVE JoinWalk(_, _, _)
JoinWalk(self, new_id, depth) ==
    IF \/ in_range(new_id, Id(self), Id(successor[self]), FALSE)
       \/ Id(successor[self]) = Id(self)
    THEN [acceptor |-> self, successor |-> successor[self], success |-> TRUE,
          forwards |-> 0]
    ELSE IF is_node_alive(successor[self]) /\ depth < MaxDepth
         THEN [JoinWalk(successor[self], new_id, depth + 1)
                   EXCEPT !.forwards = @ + 1]
         ELSE [acceptor |-> None, successor |-> None, success |-> FALSE,
               forwards |-> IF is_node_alive(successor[self]) THEN 1 ELSE 0]

\* Join handler at self for joining_node
Join(self, joining_node, depth) == JoinWalk(self, Id(joining_node), depth)

\* ---------------------------------------------------------------- key-value

\* The two stores of every process, as they stand inside a chain of handlers.
World(d, r) == [data |-> d, rep |-> r]

\* SyncReplica that keeps a stored replica of a higher version
SyncReplica_KeepNewer(w, self, key, value, version, timestamp) ==
    IF key \in DOMAIN w.rep[self] /\ w.rep[self][key].version > version
    THEN w
    ELSE [w EXCEPT
            !.rep[self] = DictPut(@, key, DataItem(value, version, timestamp))]

\* SyncReplica handler at self
SyncReplica(w, self, key, value, version, timestamp) ==
    [w EXCEPT !.rep[self] = DictPut(@, key, DataItem(value, version, timestamp))]

\* _replicate_put over the successor list `list` of self: the stores and the
\* number of acknowledged replicas.  A successor whose lock is held by the
\* calling chain answers after the 1 s timeout: it is not counted, and its
\* handler writes the replica once the lock is released.
RECURSIVE ReplicateLoop(_, _, _, _, _, _, _, _, _)
ReplicateLoop(w, self, list, i, key, value, version, timestamp, held) ==
    IF i > Len(list) THEN [w |-> w, successful_replicas |-> 0]
    ELSE LET s == list[i]
             sent == Id(s) # Id(self) /\ is_node_alive(s)
             w1 == IF sent
                   THEN SyncReplica(w, s, key, value, version, timestamp)
                   ELSE w
             rest == ReplicateLoop(w1, self, list, i + 1, key, value, version,
                                   timestamp, held)
         IN  [w |-> rest.w,
              successful_replicas |->
                  rest.successful_replicas
                  + (IF sent /\ s \notin held THEN 1 ELSE 0)]

\* _replicate_put that counts every successor it tries as a replica
replicate_put_CountAll(w, self, list, key, value, version, timestamp, held) ==
    [w |-> ReplicateLoop(w, self, Prefix(list, replication_factor - 1), 1, key,
                         value, version, timestamp, held).w,
     successful_replicas |-> Len(Prefix(list, replication_factor - 1))]

\* _replicate_put
replicate_put(w, self, list, key, value, version, timestamp, held) ==
    ReplicateLoop(w, self, Prefix(list, replication_factor - 1), 1, key, value,
                  version, timestamp, held)

\* The owner test of Put and Get
responsible(self, key_hash) ==
    IF predecessor[self] # None
    THEN in_range(key_hash, Id(predecessor[self]), Id(self), TRUE)
    ELSE TRUE

PutResponse(ok, msg, ver, k) ==
    [success |-> ok, message |-> msg, version |-> ver, replicas |-> k]

\* PutLocal with the primary version taken from the request, as for a replica
PutLocal_AsRequested(w, self, key, value, is_replica, requested_version, held) ==
    LET version == IF requested_version > 0 THEN requested_version ELSE 1
        item == DataItem(value, version, now)
    IN  IF is_replica
        THEN [w |-> [w EXCEPT !.rep[self] = DictPut(@, key, item)],
              resp |-> PutResponse(TRUE, "Replica stored", version, 0)]
        ELSE [w |-> [w EXCEPT !.data[self] = DictPut(@, key, item)],
              resp |-> PutResponse(TRUE, "Stored with K replicas", version, 0)]

\* PutLocal that replicates whether or not the process is initialized
PutLocal_Ungated(w, self, key, value, is_replica, requested_version, held) ==
    IF is_replica
    THEN LET version == IF requested_version > 0 THEN requested_version ELSE 1
         IN  [w |-> [w EXCEPT !.rep[self] =
                        DictPut(@, key, DataItem(value, version, now))],
              resp |-> PutResponse(TRUE, "Replica stored", version, 0)]
    ELSE LET version == IF key \in DOMAIN w.data[self]
                        THEN w.data[self][key].version + 1
                        ELSE 1
             w1 == [w EXCEPT !.data[self] =
                       DictPut(@, key, DataItem(value, version, now))]
             r == replicate_put(w1, self, successor_list[self], key, value,
                                version, now, held)
         IN  [w |-> r.w,
              resp |-> PutResponse(TRUE, "Stored with K replicas", version,
                                   r.successful_replicas)]

\* Put: the part after the forwarding test ("Store locally")
PutLocal(w, self, key, value, is_replica, requested_version, held) ==
    IF is_replica
    THEN LET version == IF requested_version > 0 THEN requested_version ELSE 1
         IN  [w |-> [w EXCEPT !.rep[self] =
                        DictPut(@, key, DataItem(value, version, now))],
              resp |-> PutResponse(TRUE, "Replica stored", version, 0)]
    ELSE LET version == IF key \in DOMAIN w.data[self]
                        THEN w.data[self][key].version + 1
                        ELSE 1
             w1 == [w EXCEPT !.data[self] =
                       DictPut(@, key, DataItem(value, version, now))]
             r == IF is_initialized[self]
                  THEN replicate_put(w1, self, successor_list[self], key, value,
                                     version, now, held)
                  ELSE [w |-> w1, successful_replicas |-> 0]
         IN  [w |-> r.w,
              resp |-> PutResponse(TRUE, "Stored with K replicas", version,
                                   r.successful_replicas)]

\* Put handler at self.  The forwarding branch runs under self's lock.
RECURSIVE Put(_, _, _, _, _, _, _, _)
Put(w, self, key, value, is_replica, requested_version, held, depth) ==
    LET key_hash == hash(key)
        find_resp == FindSuccessor(self, key_hash, held \cup {self})
    IN  IF ~responsible(self, key_hash) /\ ~is_replica
           /\ Id(find_resp.node) # Id(self)
        THEN IF Reachable(find_resp.node, held \cup {self}) /\ depth < MaxDepth
             THEN Put(w, find_resp.node, key, value, is_replica,
                      requested_version, held \cup {self}, depth + 1)
             ELSE [w |-> w, resp |-> PutResponse(FALSE, "Routing failed", 0, 0)]
        ELSE PutLocal(w, self, key, value, is_replica, requested_version, held)

GetResponse(f, v, ver) == [found |-> f, value |-> v, version |-> ver]

NotFound == GetResponse(FALSE, "", 0)

\* The outcome of a Get handler: its GetResponse, the number of Get RPCs sent
\* by it and by the handlers it called, and whether one of those RPCs ended
\* by its timeout (the peer's lock was held by the calling chain, or the chain
\* of nested calls outlasted the timeout).
GetOutcome(resp, rpcs, timed_out) ==
    [resp |-> resp, rpcs |-> rpcs, timed_out |-> timed_out]

\* Get handler that looks into replica_store before data_store and asks
\* nobody
GetRun_ReplicaFirst(w, self, key, held, depth) ==
    IF key \in DOMAIN w.rep[self]
    THEN GetOutcome(GetResponse(TRUE, w.rep[self][key].value,
                                w.rep[self][key].version), 0, FALSE)
    ELSE IF key \in DOMAIN w.data[self]
    THEN GetOutcome(GetResponse(TRUE, w.data[self][key].value,
                                w.data[self][key].version), 0, FALSE)
    ELSE GetOutcome(NotFound, 0, FALSE)

\* Get handler at self.  The successor-list fallback runs without the lock,
\* the final forwarding under it.
RECURSIVE GetRun(_, _, _, _, _)
RECURSIVE GetFromSuccessors(_, _, _, _, _, _)
GetFromSuccessors(w, self, i, key, held, depth) ==
    IF i > Len(successor_list[self]) THEN GetOutcome(NotFound, 0, FALSE)
    ELSE LET succ == successor_list[self][i]
             sent == Id(succ) # Id(self)
             answered == sent /\ Reachable(succ, held) /\ depth < MaxDepth
             r == IF answered THEN GetRun(w, succ, key, held, depth + 1)
                  ELSE GetOutcome(NotFound, 0, sent /\ is_node_alive(succ))
             rpcs == r.rpcs + (IF sent THEN 1 ELSE 0)
         IN  IF r.resp.found THEN GetOutcome(r.resp, rpcs, r.timed_out)
             ELSE LET rest == GetFromSuccessors(w, self, i + 1, key, held,
                                                depth)
                  IN  GetOutcome(rest.resp, rpcs + rest.rpcs,
                                 r.timed_out \/ rest.timed_out)

GetRun(w, self, key, held, depth) ==
    IF key \in DOMAIN w.data[self]
    THEN GetOutcome(GetResponse(TRUE, w.data[self][key].value,
                                w.data[self][key].version), 0, FALSE)
    ELSE IF key \in DOMAIN w.rep[self]
    THEN GetOutcome(GetResponse(TRUE, w.rep[self][key].value,
                                w.rep[self][key].version), 0, FALSE)
    ELSE LET f == GetFromSuccessors(w, self, 1, key, held, depth)
             key_hash == hash(key)
             find_resp == FindSuccessor(self, key_hash, held \cup {self})
             sent == /\ ~responsible(self, key_hash)
                     /\ Id(find_resp.node) # Id(self)
             answered == /\ sent
                         /\ Reachable(find_resp.node, held \cup {self})
                         /\ depth < MaxDepth
             r == IF answered
                  THEN GetRun(w, find_resp.node, key, held \cup {self},
                              depth + 1)
                  ELSE GetOutcome(NotFound, 0,
                                  sent /\ is_node_alive(find_resp.node))
         IN  IF f.resp.found THEN f
             ELSE GetOutcome(r.resp, f.rpcs + r.rpcs + (IF sent THEN 1 ELSE 0),
                             f.timed_out \/ r.timed_out)

\* The GetResponse of the Get handler at self
Get(w, self, key, held, depth) == GetRun(w, self, key, held, depth).resp

DeleteResponse(ok, msg) == [success |-> ok, message |-> msg]

\* Delete handler at self: the for loop over successor_list.  A successor
\* whose lock is held answers after the 2 s timeout; its handler deletes the
\* replica once the lock is released.
RECURSIVE DeleteLoop(_, _, _, _)
DeleteLoop(w, self, i, key) ==
    IF i > Len(successor_list[self]) THEN w
    ELSE LET succ == successor_list[self][i]
             w1 == IF Id(succ) # Id(self) /\ is_node_alive(succ)
                      /\ key \in DOMAIN w.rep[succ]
                   THEN [w EXCEPT !.rep[succ] = DictDel(@, key)]
                   ELSE w
         IN  DeleteLoop(w1, self, i + 1, key)

\* Delete handler that treats every request as a replica delete
Delete_ReplicaOnly(w, self, key, is_replica) ==
    IF key \in DOMAIN w.rep[self]
    THEN [w |-> [w EXCEPT !.rep[self] = DictDel(@, key)],
          resp |-> DeleteResponse(TRUE, "Deleted")]
    ELSE [w |-> w, resp |-> DeleteResponse(FALSE, "Not found")]

\* Delete handler at self
Delete(w, self, key, is_replica) ==
    IF is_replica
    THEN IF key \in DOMAIN w.rep[self]
         THEN [w |-> [w EXCEPT !.rep[self] = DictDel(@, key)],
               resp |-> DeleteResponse(TRUE, "Deleted")]
         ELSE [w |-> w, resp |-> DeleteResponse(FALSE, "Not found")]
    ELSE IF key \in DOMAIN w.data[self]
         THEN [w |-> DeleteLoop([w EXCEPT !.data[self] = DictDel(@, key)],
                                self, 1, key),
               resp |-> DeleteResponse(TRUE, "Deleted")]
         ELSE [w |-> w, resp |-> DeleteResponse(FALSE, "Not found")]

\* _transfer_keys_batch run by a thread of self: Put each key at target_node,
\* then delete it locally; an RPC error abandons the rest of the batch.
RECURSIVE transfer_keys_batch(_, _, _, _)
transfer_keys_batch(w, self, keys, target_node) ==
    IF keys = {} THEN w
    ELSE LET key == CHOOSE k \in keys : TRUE
         IN  IF key \notin DOMAIN w.data[self]
             THEN transfer_keys_batch(w, self, keys \ {key}, target_node)
             ELSE IF ~is_node_alive(target_node) THEN w
             ELSE LET item == w.data[self][key]
                      sent == Put(w, target_node, key, item.value, FALSE,
                                  item.version, {}, 1).w
                      w1 == IF key \in DOMAIN sent.data[self]
                            THEN [sent EXCEPT !.data[self] = DictDel(@, key)]
                            ELSE sent
                  IN  transfer_keys_batch(w1, self, keys \ {key}, target_node)

\* _redistribute_keys_on_join
redistribute_keys_on_join(w, self, new_node) ==
    LET keys_to_transfer ==
            {key \in DOMAIN w.data[self] :
                /\ predecessor[self] # None
                /\ in_range(hash(key), Id(predecessor[self]), Id(new_node), TRUE)}
    IN  transfer_keys_batch(w, self, keys_to_transfer, new_node)

\* _promote_replicas_on_failure promoting every replica it holds
Promoted_All(w, self) == DOMAIN w.rep[self]

\* The replica_store keys _promote_replicas_on_failure promotes
Promoted(w, self) ==
    {key \in DOMAIN w.rep[self] :
        /\ predecessor[self] # None
        /\ in_range(hash(key), Id(predecessor[self]), Id(self), TRUE)}

RECURSIVE RereplicateLoop(_, _, _, _)
RereplicateLoop(w, self, list, keys) ==
    IF keys = {} THEN w
    ELSE LET key == CHOOSE k \in keys : TRUE
             item == w.data[self][key]
         IN  RereplicateLoop(
                 replicate_put(w, self, list, key, item.value, item.version,
                               item.timestamp, {self}).w,
                 self, list, keys \ {key})

\* _promote_replicas_on_failure at self, whose successor list is `list`
promote_replicas_on_failure(w, self, list) ==
    LET promoted == Promoted(w, self)
        moved == [w EXCEPT
                    !.data[self] = [k \in (DOMAIN @) \cup promoted |->
                                       IF k \in promoted THEN w.rep[self][k]
                                       ELSE @[k]],
                    !.rep[self] = [k \in (DOMAIN @) \ promoted |-> @[k]]]
    IN  RereplicateLoop(moved, self, list, promoted)

\* ---------------------------------------------------------------- construction

\* ChordNode.__init__, for every process that will ever be started
Constructed ==
    /\ phase = [n \in Node |-> "off"]
    /\ successor = [n \in Node |-> n]
    /\ predecessor = [n \in Node |-> None]
    /\ successor_list = [n \in Node |-> <<n>>]
    /\ finger_table = [n \in Node |-> [i \in 0..(m - 1) |-> None]]
    /\ next_finger = [n \in Node |-> 0]
    /\ data_store = [n \in Node |-> EmptyDict]
    /\ replica_store = [n \in Node |-> EmptyDict]
    /\ is_initialized = [n \in Node |-> FALSE]
    /\ join_address = [n \in Node |-> None]
    /\ join_reply = [n \in Node |-> None]
    /\ handoff = {}
    /\ now = 1
    /\ calls = {}
    /\ last = [op |-> "none"]
    /\ acked = [k \in Key |-> None]

\* ---------------------------------------------------------------- actions

\* serve() without a join address, for the first process of a ring:
\* server.start() and start_background_threads().
Bootstrap(self) ==
    /\ \A n \in Node : phase[n] = "off"
    /\ phase' = [phase EXCEPT ![self] = "running"]
    /\ UNCHANGED <<successor, predecessor, successor_list, fingers, stores,
                   is_initialized, join_address, join_reply, handoff, now, calls,
                   history>>

\* serve() with the address of a started process as join address:
\* server.start(); the process answers RPCs from here on.
Listen(self, via) ==
    /\ phase[self] = "off"
    /\ via # self
    /\ phase[via] # "off"
    /\ phase' = [phase EXCEPT ![self] = "listening"]
    /\ join_address' = [join_address EXCEPT ![self] = via]
    /\ UNCHANGED <<successor, predecessor, successor_list, fingers, stores,
                   is_initialized, join_reply, handoff, now, calls, history>>

\* serve(): stub.Join(join_req) sent to the join address, together with the
\* Join handlers it runs.  A failed join leaves the process a ring of its own.
JoinRequest(self) ==
    /\ phase[self] = "listening"
    /\ LET via == join_address[self]
           r == IF is_node_alive(via) THEN Join(via, self, 1)
                ELSE [acceptor |-> None, successor |-> None, success |-> FALSE]
       IN  IF r.success
           THEN /\ successor' = [successor EXCEPT ![r.acceptor] = self]
                /\ successor_list' =
                       [successor_list EXCEPT ![r.acceptor] =
                           build_successor_list(r.acceptor, self)]
                /\ join_reply' = [join_reply EXCEPT ![self] = r.successor]
                /\ phase' = [phase EXCEPT ![self] = "joining"]
           ELSE /\ phase' = [phase EXCEPT ![self] = "running"]
                /\ UNCHANGED <<successor, successor_list, join_reply>>
    /\ UNCHANGED <<predecessor, fingers, stores, is_initialized, join_address,
                   handoff, now, calls, history>>

\* serve(): the JoinResponse arrives; node.successor, node.successor_list,
\* start_background_threads().
JoinReply(self) ==
    /\ phase[self] = "joining"
    /\ successor' = [successor EXCEPT ![self] = join_reply[self]]
    /\ successor_list' =
           [successor_list EXCEPT ![self] =
               build_successor_list(self, join_reply[self])]
    /\ join_reply' = [join_reply EXCEPT ![self] = None]
    /\ phase' = [phase EXCEPT ![self] = "running"]
    /\ UNCHANGED <<predecessor, fingers, stores, is_initialized, join_address,
                   handoff, now, calls, history>>

\* mark_initialized of start_background_threads
MarkInitialized(self) ==
    /\ phase[self] = "running"
    /\ ~is_initialized[self]
    /\ is_initialized' = [is_initialized EXCEPT ![self] = TRUE]
    /\ UNCHANGED <<routing, fingers, stores, handoff, now, calls, history>>

\* should_update that never replaces a predecessor
NotifyUpdates_OnlyAbsent(self, node) == predecessor[self] = None

\* Notify handler at self for node: should_update
NotifyUpdates(self, node) ==
    \/ predecessor[self] = None
    \/ in_range(Id(node), Id(predecessor[self]), Id(self), FALSE)

\* Notify that starts the hand-off thread at every update
NotifyHandsOff_EveryUpdate(self, node) == NotifyUpdates(self, node)

\* Notify handler at self for node: the hand-off thread is started
NotifyHandsOff(self, node) ==
    /\ NotifyUpdates(self, node)
    /\ predecessor[self] # None
    /\ Id(predecessor[self]) # Id(node)

\* One iteration of _stabilize_loop at self.
Stabilize(self) ==
    /\ phase[self] = "running"
    /\ Id(successor[self]) # Id(self)
    /\ LET current_successor == successor[self]
       IN  IF ~is_node_alive(current_successor)
           THEN LET h == handle_successor_failure(self)
                    w == promote_replicas_on_failure(
                             World(data_store, replica_store), self,
                             h.successor_list)
                IN  /\ successor' = [successor EXCEPT ![self] = h.successor]
                    /\ successor_list' =
                           [successor_list EXCEPT ![self] = h.successor_list]
                    /\ data_store' = w.data
                    /\ replica_store' = w.rep
                    /\ UNCHANGED <<predecessor, handoff>>
           ELSE LET p == predecessor[current_successor]
                    adopt == /\ p # None
                             /\ Id(p) # Id(self)
                             /\ in_range(Id(p), Id(self), Id(current_successor),
                                         FALSE)
                    new_successor == IF adopt THEN p ELSE current_successor
                IN  /\ successor' = [successor EXCEPT ![self] = new_successor]
                    \* stub is the stub of current_successor
                    /\ predecessor' =
                           IF NotifyUpdates(current_successor, self)
                           THEN [predecessor EXCEPT ![current_successor] = self]
                           ELSE predecessor
                    /\ handoff' =
                           IF NotifyHandsOff(current_successor, self)
                           THEN handoff \cup {<<current_successor, self>>}
                           ELSE handoff
                    /\ successor_list' =
                           [successor_list EXCEPT ![self] =
                               build_successor_list(self, new_successor)]
                    /\ UNCHANGED stores
    /\ UNCHANGED <<phase, fingers, is_initialized, join_address, join_reply,
                   now, calls, history>>

\* The thread Notify starts at self: _redistribute_keys_on_join(new_node)
Redistribute(self, new_node) ==
    /\ <<self, new_node>> \in handoff
    /\ is_node_alive(self)
    /\ LET w == redistribute_keys_on_join(World(data_store, replica_store),
                                          self, new_node)
       IN  /\ data_store' = w.data
           /\ replica_store' = w.rep
    /\ handoff' = handoff \ {<<self, new_node>>}
    /\ UNCHANGED <<routing, fingers, is_initialized, now, calls, history>>

\* The process is killed.
Crash(self) ==
    /\ is_node_alive(self)
    /\ phase' = [phase EXCEPT ![self] = "crashed"]
    /\ handoff' = {h \in handoff : h[1] # self}
    /\ UNCHANGED <<successor, predecessor, successor_list, fingers, stores,
                   is_initialized, join_address, join_reply, now, calls, history>>

\* _fix_finger that stores the successor instead of looking the finger up
FixFinger_Successor(self) ==
    /\ phase[self] = "running"
    /\ finger_table' = [finger_table EXCEPT
                           ![self][next_finger[self]] = successor[self]]
    /\ next_finger' = [next_finger EXCEPT ![self] = (@ + 1) % m]
    /\ UNCHANGED <<routing, stores, is_initialized, handoff, now, calls, history>>

\* One iteration of _fix_fingers_loop at self: _fix_finger(next_finger)
FixFinger(self) ==
    /\ phase[self] = "running"
    /\ LET index == next_finger[self]
           start == (Id(self) + 2 ^ index) % max_nodes
           resp == FindSuccessor(self, start, {})
       IN  finger_table' = [finger_table EXCEPT ![self][index] = resp.node]
    /\ next_finger' = [next_finger EXCEPT ![self] = (@ + 1) % m]
    /\ UNCHANGED <<routing, stores, is_initialized, handoff, now, calls, history>>

\* A client's Put(key, value) sent to self (is_replica = False, version unset)
ClientPut(self, key, value) ==
    /\ is_node_alive(self)
    /\ \A n \in Node : key \in DOMAIN data_store[n]
                          => data_store[n][key].version < MaxVersion
    /\ LET r == Put(World(data_store, replica_store), self, key, value, FALSE,
                    0, {}, 1)
       IN  /\ data_store' = r.w.data
           /\ replica_store' = r.w.rep
           /\ last' = [op |-> "put", node |-> self, key |-> key,
                       value |-> value, resp |-> r.resp]
           /\ acked' = IF r.resp.success THEN [acked EXCEPT ![key] = value]
                       ELSE acked
    /\ UNCHANGED <<routing, fingers, is_initialized, handoff, now, calls>>

\* A client's Get(key) sent to self
ClientGet(self, key) ==
    /\ is_node_alive(self)
    /\ last' = [op |-> "get", node |-> self, key |-> key,
                resp |-> Get(World(data_store, replica_store), self, key, {}, 1)]
    /\ UNCHANGED <<routing, fingers, stores, is_initialized, handoff, now, calls,
                   acked>>

\* A client's Delete(key) sent to self (is_replica = False)
ClientDelete(self, key) ==
    /\ is_node_alive(self)
    /\ LET r == Delete(World(data_store, replica_store), self, key, FALSE)
       IN  /\ data_store' = r.w.data
           /\ replica_store' = r.w.rep
           /\ last' = [op |-> "delete", node |-> self, key |-> key,
                       resp |-> r.resp]
           /\ acked' = IF r.resp.success THEN [acked EXCEPT ![key] = None]
                       ELSE acked
    /\ UNCHANGED <<routing, fingers, is_initialized, handoff, now, calls>>

\* The version stored for key in the primary store of n (0 when absent)
StoredVersion(store, n, key) ==
    IF key \in DOMAIN store[n] THEN store[n][key].version ELSE 0

\* A SyncReplica(key, value, version, timestamp) RPC received by self
SyncReplicaCall(self, key, value, version, timestamp) ==
    /\ is_node_alive(self)
    /\ LET w == SyncReplica(World(data_store, replica_store), self, key, value,
                            version, timestamp)
       IN  /\ data_store' = w.data
           /\ replica_store' = w.rep
    /\ last' = [op |-> "sync", node |-> self, key |-> key, value |-> value,
                version |-> version, timestamp |-> timestamp,
                replaced |-> StoredVersion(replica_store, self, key),
                resp |-> [success |-> TRUE]]
    /\ UNCHANGED <<routing, fingers, is_initialized, handoff, now, calls, acked>>

\* ---------------------------------------------------------------- SpecRing

\* The processes of the ring-formation specification
RingNode == {"n1", "n2", "n3"}

InitRing == Constructed

NextRing ==
    \/ \E n \in RingNode : Bootstrap(n)
    \/ \E n, via \in RingNode : Listen(n, via)
    \/ \E n \in RingNode : JoinRequest(n)
    \/ \E n \in RingNode : JoinReply(n)
    \/ \E n \in RingNode : Stabilize(n)
    \/ \E n, nn \in RingNode : Redistribute(n, nn)

\* Ring formation without crashes; the stabilize loop of a running process
\* and the delivery of a JoinResponse are never postponed forever.
SpecRing ==
    /\ InitRing
    /\ [][NextRing]_vars
    /\ \A n \in RingNode : WF_vars(Stabilize(n))
    /\ \A n \in RingNode : WF_vars(JoinReply(n))
    /\ \A n \in RingNode : WF_vars(JoinRequest(n))

\* ---------------------------------------------------------------- ring order

\* Clockwise distance from identifier a to identifier b
Dist(a, b) == (b - a + max_nodes) % max_nodes

\* The processes whose server is up
Alive == {n \in Node : is_node_alive(n)}

\* The first alive process clockwise from identifier id (id itself included)
Owner(id) ==
    CHOOSE n \in Alive : \A o \in Alive : Dist(id, Id(n)) <= Dist(id, Id(o))

\* The next alive process clockwise after n (n itself when it is alone)
NextAlive(n) ==
    IF Alive \ {n} = {} THEN n
    ELSE CHOOSE s \in Alive \ {n} :
             \A o \in Alive \ {n} : Dist(Id(n), Id(s)) <= Dist(Id(n), Id(o))

\* The previous alive process counter-clockwise before n
PrevAlive(n) ==
    IF Alive \ {n} = {} THEN n
    ELSE CHOOSE s \in Alive \ {n} :
             \A o \in Alive \ {n} : Dist(Id(s), Id(n)) <= Dist(Id(o), Id(n))

SuccessorsCorrect == \A n \in Alive : successor[n] = NextAlive(n)

PredecessorsCorrect ==
    \A n \in Alive :
        IF Alive = {n} THEN predecessor[n] \in {None, n}
        ELSE predecessor[n] = PrevAlive(n)

\* ---------------------------------------------------------------- C9

\* C9: with no crashes, after any finite sequence of joins (concurrent ones
\* included) and under fair stabilization, eventually every process's
\* successor is the next process clockwise and its predecessor the previous
\* process counter-clockwise, and this remains true.
C9_JoinConvergence == <>[](SuccessorsCorrect /\ PredecessorsCorrect)

\* All three processes have joined and the ring has converged.
C9_Witness ==
    /\ \A n \in RingNode : phase[n] = "running"
    /\ SuccessorsCorrect /\ PredecessorsCorrect
    /\ \A n \in RingNode : Len(successor_list[n]) = replication_factor - 1

\* ---------------------------------------------------------------- C10

\* C10: in every reachable state of every process, successor_list has length
\* at most R-1, holds no two entries with the same id, and does not contain
\* the process itself.
C10_SuccessorListInvariant ==
    \A n \in Alive :
        /\ Len(successor_list[n]) <= replication_factor - 1
        /\ \A i, j \in 1..Len(successor_list[n]) :
               i # j => Id(successor_list[n][i]) # Id(successor_list[n][j])
        /\ \A i \in 1..Len(successor_list[n]) :
               Id(successor_list[n][i]) # Id(n)

\* ---------------------------------------------------------------- Spec

\* The processes and keys of the store specification
DataNode == {"n1", "n2"}
DataKey == {"alpha"}

Init == Constructed

Next ==
    \/ \E n \in DataNode : Bootstrap(n)
    \/ \E n, via \in DataNode : Listen(n, via)
    \/ \E n \in DataNode : JoinRequest(n)
    \/ \E n \in DataNode : JoinReply(n)
    \/ \E n \in DataNode : MarkInitialized(n)
    \/ \E n \in DataNode : Stabilize(n)
    \/ \E n \in DataNode, k \in DataKey, v \in Value : ClientPut(n, k, v)
    \/ \E n \in DataNode, k \in DataKey : ClientGet(n, k)

\* A ring of two formed from construction, without crashes, serving clients
\* from the first moment.  (Notify starts no hand-off thread in a ring of
\* two: a predecessor, once set, is never replaced.)
Spec == Init /\ [][Next]_vars

\* Every started process has joined and passed the initialization gate, no
\* hand-off is running, and no maintenance step changes anything any more.
Quiescent ==
    /\ Alive # {}
    /\ \A n \in Node : phase[n] \in {"off", "running", "crashed"}
    /\ \A n \in Alive : is_initialized[n]
    /\ handoff = {}
    /\ ~ENABLED <<\E n \in Node : Stabilize(n)>>_vars

\* The alive processes that hold key as primary / as replica
Primaries(key) == {n \in Alive : key \in DOMAIN data_store[n]}
Replicas(key) == {n \in Alive : key \in DOMAIN replica_store[n]}

\* The first j alive processes clockwise after n
RECURSIVE NextAlives(_, _)
NextAlives(n, j) ==
    IF j = 0 THEN {}
    ELSE LET before == NextAlives(n, j - 1)
             rest == Alive \ (before \cup {n})
         IN  IF rest = {} THEN before
             ELSE before \cup
                  {CHOOSE s \in rest :
                      \A o \in rest : Dist(Id(n), Id(s)) <= Dist(Id(n), Id(o))}

\* ---------------------------------------------------------------- C1

\* C1: once a client Put(k, v) has returned success and the ring is
\* quiescent, a Get(k) at any alive process returns found with value v, the
\* value of the latest successful Put.
C1_RoundTrip ==
    Quiescent =>
        \A k \in Key : acked[k] # None =>
            \A n \in Alive :
                /\ Get(World(data_store, replica_store), n, k, {}, 1).found
                /\ Get(World(data_store, replica_store), n, k, {}, 1).value = acked[k]

\* ---------------------------------------------------------------- C2

\* C2: in a quiescent ring without crashes every stored key is in the
\* primary store of exactly one process, the first alive process clockwise
\* from hash(key).
C2_OwnershipExclusive ==
    Quiescent =>
        \A k \in Key : Primaries(k) # {} => Primaries(k) = {Owner(hash(k))}

\* ---------------------------------------------------------------- C3

\* C3: in a quiescent ring, for every key in its owner's primary store the
\* next min(R-1, K-1) alive successors of the owner hold the key in
\* replica_store with the value and version of the primary copy, and no more
\* than R-1 processes hold it as a replica.
C3_ReplicaCoverage ==
    Quiescent =>
        \A k \in Key :
            LET o == Owner(hash(k))
            IN  k \in DOMAIN data_store[o] =>
                    /\ \A s \in NextAlives(o, replication_factor - 1) :
                           /\ k \in DOMAIN replica_store[s]
                           /\ replica_store[s][k].value = data_store[o][k].value
                           /\ replica_store[s][k].version
                                  = data_store[o][k].version
                    /\ Cardinality(Replicas(k)) <= replication_factor - 1

\* ---------------------------------------------------------------- SpecCrash

\* The processes of the failure specification
CrashNode == Node

\* The ring of the processes of S after stabilization has come to rest and
\* every finger has been fixed
StableRing(S) ==
    /\ phase = [n \in Node |-> IF n \in S THEN "running" ELSE "off"]
    /\ successor = [n \in Node |-> IF n \in S THEN NextAlive(n) ELSE n]
    /\ predecessor = [n \in Node |->
                         IF n \in S /\ S # {n} THEN PrevAlive(n) ELSE None]
    /\ successor_list = [n \in Node |->
                            IF n \notin S THEN <<n>>
                            ELSE build_successor_list(n, successor[n])]
    /\ finger_table = [n \in Node |-> [i \in 0..(m - 1) |->
                          IF n \in S
                          THEN Owner((Id(n) + 2 ^ i) % max_nodes)
                          ELSE None]]
    /\ next_finger = [n \in Node |-> 0]
    /\ join_address = [n \in Node |-> None]
    /\ join_reply = [n \in Node |-> None]
    /\ handoff = {}
    /\ now = 1
    /\ calls = {}

\* The stores after a client Put(key, value) served by the stable,
\* initialized ring
StoredOnce(key, value) ==
    LET r == Put(World([n \in Node |-> EmptyDict], [n \in Node |-> EmptyDict]),
                 Owner(hash(key)), key, value, FALSE, 0, {}, 1)
    IN  /\ data_store = r.w.data
        /\ replica_store = r.w.rep
        /\ last = [op |-> "put", node |-> Owner(hash(key)), key |-> key,
                   value |-> value, resp |-> r.resp]
        /\ acked = [k \in Key |-> IF k = key THEN value ELSE None]

\* A stabilized, initialized ring of five holding one replicated key
InitCrash ==
    /\ StableRing(CrashNode)
    /\ is_initialized = [n \in Node |-> TRUE]
    /\ StoredOnce("alpha", "v1")

NextCrash ==
    \/ \E n \in CrashNode : (\A o \in Node : phase[o] # "crashed") /\ Crash(n)
    \/ \E n \in CrashNode : Stabilize(n)
    \/ \E n \in CrashNode, k \in DataKey : ClientGet(n, k)

\* A stabilized ring of five in which at most one process crashes.
SpecCrash == InitCrash /\ [][NextCrash]_vars

\* Stabilization has come to rest: no iteration of any stabilize loop changes
\* the state any more.
StabilizeAtRest == ~ENABLED <<\E n \in Node : Stabilize(n)>>_vars

Crashed == {n \in Node : phase[n] = "crashed"}

\* ---------------------------------------------------------------- C5

\* C5: after a single crash in a stabilized ring, once stabilization has come
\* to rest every survivor's successor is the next alive identifier clockwise;
\* no survivor is left with successor = self while other processes are alive.
C5_SuccessorsHeal ==
    (Crashed # {} /\ StabilizeAtRest) => SuccessorsCorrect

\* ---------------------------------------------------------------- C6

\* C6: after a process D has crashed, once stabilization has come to rest the
\* predecessor of D's successor no longer refers to D but to the previous
\* alive process counter-clockwise.
C6_PredecessorHeals ==
    (Crashed # {} /\ StabilizeAtRest) =>
        \A d \in Crashed :
            /\ predecessor[Owner(Id(d))] # d
            /\ predecessor[Owner(Id(d))] = PrevAlive(Owner(Id(d)))

\* ---------------------------------------------------------------- C7

\* C7: in a stabilized ring of five with R = 3 holding a key Put after
\* initialization, when the key's owner has crashed and stabilization has
\* come to rest, a Get of the key at every survivor returns the original value.
C7_AvailableAfterFailure ==
    (phase["n2"] = "crashed" /\ StabilizeAtRest) =>
        \A n \in Alive :
            /\ Get(World(data_store, replica_store), n, "alpha", {}, 1).found
            /\ Get(World(data_store, replica_store), n, "alpha", {}, 1).value = "v1"

\* ---------------------------------------------------------------- C8

\* C8: when the owner of a replicated key has crashed and stabilization has
\* come to rest, the key is in the primary store of the new owner, the first
\* alive process clockwise from the key's identifier.
C8_ReplicaPromoted ==
    (phase["n2"] = "crashed" /\ StabilizeAtRest) =>
        /\ "alpha" \in DOMAIN data_store[Owner(hash("alpha"))]
        /\ "alpha" \notin DOMAIN replica_store[Owner(hash("alpha"))]

\* ---------------------------------------------------------------- SpecKV

\* The processes of the store specification on a fixed ring
KVNode == {"n1", "n2"}

\* A stabilized ring of two with empty stores, before the initialization
\* gates open
InitKV ==
    /\ StableRing(KVNode)
    /\ is_initialized = [n \in Node |-> FALSE]
    /\ data_store = [n \in Node |-> EmptyDict]
    /\ replica_store = [n \in Node |-> EmptyDict]
    /\ last = [op |-> "none"]
    /\ acked = [k \in Key |-> None]

NextKV ==
    \/ \E n \in KVNode : MarkInitialized(n)
    \/ \E n \in KVNode, k \in Key : ClientPut(n, k, "v1")
    \/ \E n \in KVNode, k \in Key : ClientGet(n, k)
    \/ \E n \in KVNode, k \in Key : SyncReplicaCall(n, k, "v2", MaxVersion, now)

\* Clients and peers using the store of a stabilized ring of two.
SpecKV == InitKV /\ [][NextKV]_vars

\* ---------------------------------------------------------------- C4

\* C4: every primary Put handled by a key's owner stores and returns the
\* previously stored version + 1 (1 for the first), and no other step (a Get,
\* a SyncReplica, a Put of another key) changes a stored primary entry, so
\* the versions an owner returns for a key are 1, 2, 3, ...
C4_VersionMonotonic ==
    [][\A n \in Node, k \in Key :
          IF /\ last' # last /\ last'.op = "put" /\ last'.key = k
             /\ last'.resp.success /\ n = Owner(hash(k))
          THEN /\ StoredVersion(data_store', n, k)
                      = StoredVersion(data_store, n, k) + 1
               /\ last'.resp.version = StoredVersion(data_store, n, k) + 1
          ELSE /\ StoredVersion(data_store', n, k)
                      = StoredVersion(data_store, n, k)
               /\ (k \in DOMAIN data_store[n] => data_store'[n][k] = data_store[n][k])
      ]_vars

\* The owner of a key has answered its third Put with version 3 while it holds
\* a SyncReplica'd copy of the key.
C4_Witness ==
    /\ last.op = "put" /\ last.key = "alpha" /\ last.resp.success
    /\ last.resp.version = 3
    /\ last.node # Owner(hash("alpha"))
    /\ "alpha" \in DOMAIN replica_store[Owner(hash("alpha"))]
    /\ "x" \in DOMAIN data_store[Owner(hash("x"))]

\* ---------------------------------------------------------------- SpecLock

\* The processes of the mutex specification
LockNode == {"n1", "n2"}

\* The processes a thread of which holds the process's mutex while it waits
\* for the answer to a forwarded Put
LockHeld == {c.from : c \in {d \in calls : d.state = "waiting" /\ d.locked}}

\* Put handler at self up to stub.Put(request, timeout=5): self is not
\* responsible, FindSuccessor names another process, and the request is
\* forwarded inside `with self.lock`.
PutForward(self, key, value) ==
    /\ is_node_alive(self)
    /\ self \notin LockHeld
    /\ \A n \in Node : key \in DOMAIN data_store[n]
                          => data_store[n][key].version < MaxVersion
    /\ LET key_hash == hash(key)
           find_resp == FindSuccessor(self, key_hash, LockHeld \cup {self})
       IN  /\ ~responsible(self, key_hash)
           /\ Id(find_resp.node) # Id(self)
           /\ \A c \in calls : c.from # self \/ c.key # key
           /\ calls' = calls \cup
                  {[from |-> self, to |-> find_resp.node, key |-> key,
                    value |-> value, state |-> "waiting", locked |-> TRUE]}
    /\ UNCHANGED <<routing, fingers, stores, is_initialized, handoff, now,
                   history>>

\* The Put handler of the callee of a forwarded Put runs: it needs the
\* callee's mutex.  The caller, if it still waits, returns the response and
\* releases its mutex.
PutReturn(c) ==
    /\ c \in calls
    /\ is_node_alive(c.to)
    /\ c.to \notin LockHeld
    /\ LET r == Put(World(data_store, replica_store), c.to, c.key, c.value,
                    FALSE, 0, LockHeld, 2)
       IN  /\ data_store' = r.w.data
           /\ replica_store' = r.w.rep
           /\ IF c.state = "waiting"
              THEN /\ last' = [op |-> "put", node |-> c.from, key |-> c.key,
                               value |-> c.value, resp |-> r.resp]
                   /\ acked' = IF r.resp.success
                               THEN [acked EXCEPT ![c.key] = c.value]
                               ELSE acked
              ELSE UNCHANGED history
    /\ calls' = calls \ {c}
    /\ UNCHANGED <<routing, fingers, is_initialized, handoff, now>>

\* stub.Put(request, timeout=5) raises at the caller because the callee's
\* handler cannot take the callee's mutex in time (or the callee is dead):
\* the caller answers "Routing failed" and releases its mutex.  The handler
\* thread of an alive callee stays blocked on the mutex and runs later.
PutTimeout(c) ==
    /\ c \in calls
    /\ c.state = "waiting"
    /\ ~is_node_alive(c.to) \/ c.to \in LockHeld
    /\ calls' = IF is_node_alive(c.to)
                THEN (calls \ {c}) \cup {[c EXCEPT !.state = "abandoned"]}
                ELSE calls \ {c}
    /\ last' = [op |-> "put", node |-> c.from, key |-> c.key,
                value |-> c.value,
                resp |-> PutResponse(FALSE, "Routing failed", 0, 0)]
    /\ UNCHANGED <<routing, fingers, stores, is_initialized, handoff, now,
                   acked>>

\* The forwarded Puts that can ever be in flight
Call ==
    [from : LockNode, to : LockNode, key : Key, value : {"v1"},
     state : {"waiting", "abandoned"}, locked : {TRUE}]

NextLock ==
    \/ \E n \in LockNode : MarkInitialized(n)
    \/ \E n \in LockNode, k \in Key : PutForward(n, k, "v1")
    \/ \E c \in Call : PutReturn(c)
    \/ \E c \in Call : PutTimeout(c)
    \/ \E n \in LockNode, k \in Key : ClientGet(n, k)

\* Clients of a stabilized ring of two, with the forwarding of a Put split
\* at the outbound RPC.
SpecLock == InitKV /\ [][NextLock]_vars

\* ---------------------------------------------------------------- C11

\* C11: no thread waits on an outbound RPC while it holds its process's
\* mutex; so two processes never each hold their own mutex while each waits
\* for a handler of the other that needs that mutex.
C11_NoRpcUnderMutex ==
    \A c, d \in calls :
        ~ /\ c.state = "waiting" /\ c.locked
          /\ d.state = "waiting" /\ d.locked
          /\ c.to = d.from
          /\ d.to = c.from

\* ---------------------------------------------------------------- C12

\* C12: in a stabilized ring of two, both past the initialization gate, a
\* client Put at either process answers success with at least one
\* acknowledged replica, and a Get of the key at the other process then
\* answers the value.
C12_TwoNodeReplication ==
    [][(/\ last' # last
        /\ last'.op = "put"
        /\ \A n \in KVNode : is_initialized[n])
       => /\ last'.resp.success
          /\ last'.resp.replicas >= 1
          /\ \A o \in KVNode \ {last'.node} :
                 Get(World(data_store', replica_store'), o, last'.key, {},
                     1).value = last'.value]_vars

\* ---------------------------------------------------------------- SpecDelete

NextDelete ==
    \/ \E n \in KVNode : MarkInitialized(n)
    \/ \E n \in KVNode, k \in Key : ClientPut(n, k, "v1")
    \/ \E n \in KVNode, k \in Key : ClientDelete(n, k)
    \/ \E n \in KVNode, k \in Key : ClientGet(n, k)

\* Clients putting, deleting and getting on a stabilized ring of two.
SpecDelete == InitKV /\ [][NextDelete]_vars

\* ---------------------------------------------------------------- C13

\* C13: in a stabilized ring a client Delete sent to any alive process, the
\* owner or not, answers success and removes the key from the owner's
\* primary store whenever the key is stored in the ring.
C13_DeleteAnyNode ==
    [][\A k \in Key :
          (/\ last' # last
           /\ last'.op = "delete"
           /\ last'.key = k
           /\ \E n \in Alive : k \in DOMAIN data_store[n])
          => /\ last'.resp.success
             /\ k \notin DOMAIN data_store'[Owner(hash(k))]]_vars

\* ---------------------------------------------------------------- SpecHandoff

\* The ring before the join, and the process that joins it
HandoffRing == {"n1", "n3", "n4"}
HandoffJoiner == "n2"
HandoffNode == HandoffRing \cup {HandoffJoiner}

\* The stores after client Puts of `value` for every key of keys, served by
\* the stable, initialized ring
RECURSIVE PutEach(_, _, _)
PutEach(w, keys, value) ==
    IF keys = {} THEN w
    ELSE LET key == CHOOSE k \in keys : TRUE
         IN  PutEach(Put(w, Owner(hash(key)), key, value, FALSE, 0, {}, 1).w,
                     keys \ {key}, value)

\* A stabilized, initialized ring of three holding every key, replicated
InitHandoff ==
    /\ StableRing(HandoffRing)
    /\ is_initialized = [n \in Node |-> n \in HandoffRing]
    /\ LET w == PutEach(World([n \in Node |-> EmptyDict],
                              [n \in Node |-> EmptyDict]), Key, "v1")
       IN  /\ data_store = w.data
           /\ replica_store = w.rep
    /\ last = [op |-> "none"]
    /\ acked = [k \in Key |-> "v1"]

NextHandoff ==
    \/ \E via \in HandoffRing : Listen(HandoffJoiner, via)
    \/ JoinRequest(HandoffJoiner)
    \/ JoinReply(HandoffJoiner)
    \/ MarkInitialized(HandoffJoiner)
    \/ \E n \in HandoffNode : Stabilize(n)
    \/ \E n, nn \in HandoffNode : Redistribute(n, nn)
    \/ \E n \in HandoffNode, k \in Key : ClientDelete(n, k)

\* A process joins a stabilized ring of three that holds keys; clients
\* delete.
SpecHandoff == InitHandoff /\ [][NextHandoff]_vars

\* ---------------------------------------------------------------- C14

\* C14: after a primary Delete of a key at its owner has answered success
\* (and no Put of the key since), a Get of the key at every alive process
\* answers not found: no replica left anywhere makes the key readable.
C14_DeleteThenGet ==
    \A k \in Key :
        (/\ Quiescent
         /\ last.op = "delete"
         /\ last.key = k
         /\ last.resp.success
         /\ last.node = Owner(hash(k)))
        => \A n \in Alive :
               ~Get(World(data_store, replica_store), n, k, {}, 1).found

\* ---------------------------------------------------------------- SpecDegrade

\* The sets of peers that answer Ping but whose handlers do not get their
\* process's mutex before the caller's timeout, during one request
Busy(self) == {{}} \cup {{b} : b \in Node \ {self}}

\* A FindSuccessor(key_id) RPC served by self
FindSuccessorRequest(self, key_id, busy) ==
    /\ is_node_alive(self)
    /\ last' = [op |-> "find", node |-> self, key_id |-> key_id,
                busy |-> busy, resp |-> FindSuccessor(self, key_id, busy)]
    /\ UNCHANGED <<routing, fingers, stores, is_initialized, handoff, now,
                   calls, acked>>

\* A client's Put(key, value) served by self while the peers of busy time out
PutRequest(self, key, value, busy) ==
    /\ is_node_alive(self)
    /\ \A n \in Node : key \in DOMAIN data_store[n]
                          => data_store[n][key].version < MaxVersion
    /\ LET r == Put(World(data_store, replica_store), self, key, value, FALSE,
                    0, busy, 1)
       IN  /\ data_store' = r.w.data
           /\ replica_store' = r.w.rep
           /\ last' = [op |-> "put", node |-> self, key |-> key,
                       value |-> value, busy |-> busy, resp |-> r.resp]
           /\ acked' = IF r.resp.success THEN [acked EXCEPT ![key] = value]
                       ELSE acked
    /\ UNCHANGED <<routing, fingers, is_initialized, handoff, now, calls>>

\* A client's Get(key) served by self while the peers of busy time out
GetRequest(self, key, busy) ==
    /\ is_node_alive(self)
    /\ last' = [op |-> "get", node |-> self, key |-> key, busy |-> busy,
                resp |-> Get(World(data_store, replica_store), self, key,
                             busy, 1)]
    /\ UNCHANGED <<routing, fingers, stores, is_initialized, handoff, now,
                   calls, acked>>

NextDegrade ==
    \/ \E n \in CrashNode : (\A o \in Node : phase[o] # "crashed") /\ Crash(n)
    \/ \E n \in CrashNode, k \in Key :
           \E busy \in Busy(n) : FindSuccessorRequest(n, hash(k), busy)
    \/ \E n \in CrashNode, k \in DataKey :
           \E busy \in Busy(n) : PutRequest(n, k, "v2", busy)
    \/ \E n \in CrashNode, k \in DataKey :
           \E busy \in Busy(n) : GetRequest(n, k, busy)

\* Requests served by a stabilized ring of five in which one process may
\* crash (no stabilize round has run since) and one peer may be too slow.
SpecDegrade == InitCrash /\ [][NextDegrade]_vars

\* ---------------------------------------------------------------- C15

\* The peer p does not answer a request of self that needs p's mutex
Unanswered(self, p, busy) == ~is_node_alive(p) \/ p \in busy \cup {self}

\* C15: when the peer a handler forwards to is unreachable or times out,
\* FindSuccessor answers {successor, [self.id], 1}; a Put at a process that
\* is not responsible answers success = false, "Routing failed", and leaves
\* the stores of that process unchanged; Get answers found = false.
C15_GracefulDegradation ==
    [][last' # last =>
        LET self == last'.node
            busy == last'.busy
        IN  /\ (/\ last'.op = "find"
                /\ ~in_range(last'.key_id, Id(self), Id(successor[self]), TRUE)
                /\ Id(closest_preceding_finger(self, last'.key_id)) # Id(self)
                /\ ~is_node_alive(closest_preceding_finger(self, last'.key_id))
                   \/ closest_preceding_finger(self, last'.key_id) \in busy)
               => last'.resp = [node |-> successor[self],
                                path |-> <<Id(self)>>, hops |-> 1]
            /\ (/\ last'.op = "put"
                /\ ~responsible(self, hash(last'.key))
                /\ LET t == FindSuccessor(self, hash(last'.key),
                                          busy \cup {self}).node
                   IN  Id(t) # Id(self) /\ Unanswered(self, t, busy))
               => /\ ~last'.resp.success
                  /\ last'.resp.message = "Routing failed"
                  /\ data_store'[self] = data_store[self]
                  /\ replica_store'[self] = replica_store[self]
            /\ (/\ last'.op = "get"
                /\ last'.key \notin DOMAIN data_store[self]
                /\ last'.key \notin DOMAIN replica_store[self]
                /\ \A i \in 1..Len(successor_list[self]) :
                       \/ Id(successor_list[self][i]) = Id(self)
                       \/ Unanswered(self, successor_list[self][i],
                                     busy \ {self})
                /\ ~responsible(self, hash(last'.key))
                /\ LET t == FindSuccessor(self, hash(last'.key),
                                          busy \cup {self}).node
                   IN  Id(t) # Id(self) /\ Unanswered(self, t, busy))
               => ~last'.resp.found]_vars

\* A Put was refused with "Routing failed" by a process whose forwarding
\* target had crashed, and the key is still where it was.
C15_Witness ==
    /\ last.op = "put"
    /\ is_node_alive(last.node)
    /\ ~last.resp.success
    /\ last.resp.message = "Routing failed"
    /\ \E n \in Node : phase[n] = "crashed" /\ successor[last.node] = n
    /\ last.key \notin DOMAIN data_store[last.node]

\* ---------------------------------------------------------------- SpecSync

NextSync ==
    \/ \E n \in KVNode : MarkInitialized(n)
    \/ \E n \in KVNode, k \in DataKey : ClientPut(n, k, "v1")
    \/ \E n \in KVNode, k \in Key, ver \in {1, MaxVersion} :
           SyncReplicaCall(n, k, "v2", ver, now)

\* Replication traffic and SyncReplica requests of any version on a
\* stabilized ring of two.
SpecSync == InitKV /\ [][NextSync]_vars

\* ---------------------------------------------------------------- C16

\* C16: SyncReplica(key, value, version, timestamp) answers success and
\* leaves replica_store[key] equal to the supplied tuple whatever was stored
\* (a higher version included); the primary stores, every other replica
\* entry and the routing state are unchanged; applying it a second time
\* changes nothing.
C16_SyncReplicaOverwrite ==
    [][(last' # last /\ last'.op = "sync") =>
        LET n == last'.node
            k == last'.key
            item == DataItem(last'.value, last'.version, last'.timestamp)
        IN  /\ last'.resp.success
            /\ k \in DOMAIN replica_store'[n]
            /\ replica_store'[n][k] = item
            /\ data_store' = data_store
            /\ \A o \in Node : o # n => replica_store'[o] = replica_store[o]
            /\ DOMAIN replica_store'[n] = DOMAIN replica_store[n] \cup {k}
            /\ \A j \in DOMAIN replica_store[n] :
                   j # k => replica_store'[n][j] = replica_store[n][j]
            /\ UNCHANGED <<routing, fingers, is_initialized>>
            /\ SyncReplica(World(data_store', replica_store'), n, k,
                           last'.value, last'.version, last'.timestamp)
               = World(data_store', replica_store')]_vars

\* A SyncReplica of version 1 has replaced a replica of a higher version.
C16_Witness ==
    /\ last.op = "sync"
    /\ last.version = 1
    /\ last.replaced > 1
    /\ replica_store[last.node][last.key].version = 1

\* ---------------------------------------------------------------- SpecRange

\* The identifiers of the ring
Identifier == 0..(max_nodes - 1)

\* One call of _in_range(key, start, end, inclusive)
InRangeCall(key, start, end, inclusive) ==
    /\ last' = [op |-> "in_range", key |-> key, start |-> start, end |-> end,
                inclusive |-> inclusive,
                result |-> in_range(key, start, end, inclusive)]
    /\ UNCHANGED <<routing, fingers, stores, is_initialized, handoff, now,
                   calls, acked>>

NextRange ==
    /\ last.op = "none"
    /\ \E key, start, end \in Identifier, inclusive \in BOOLEAN :
           InRangeCall(key, start, end, inclusive)

\* _in_range applied once, to any triple of identifiers, both ways.
SpecRange == Constructed /\ [][NextRange]_vars

\* ---------------------------------------------------------------- C17

\* C17: for identifiers a # b and x outside {a, b}, exactly one of
\* in_range(x, a, b, inclusive) and in_range(x, b, a, inclusive) is true,
\* for both values of inclusive; for a = b, in_range(x, a, b, inclusive)
\* equals inclusive.
C17_IntervalComplement ==
    last.op = "in_range" =>
        LET x == last.key
            a == last.start
            b == last.end
        IN  /\ (a # b /\ x \notin {a, b})
               => (last.result <=> ~in_range(x, b, a, last.inclusive))
            /\ a = b => last.result = last.inclusive

\* An identifier inside an interval that wraps around zero, so outside the
\* complementary interval
C17_Witness ==
    /\ last.op = "in_range"
    /\ last.start > last.end
    /\ last.key < last.end
    /\ last.result
    /\ ~in_range(last.key, last.end, last.start, last.inclusive)

\* ---------------------------------------------------------------- SpecLookup

\* A stabilized ring of any of the processes, every finger fixed
InitLookup ==
    /\ \E S \in (SUBSET Node) \ {{}} : StableRing(S)
    /\ is_initialized = [n \in Node |-> is_node_alive(n)]
    /\ data_store = [n \in Node |-> EmptyDict]
    /\ replica_store = [n \in Node |-> EmptyDict]
    /\ last = [op |-> "none"]
    /\ acked = [k \in Key |-> None]

NextLookup ==
    \E n \in Node, id \in Identifier : FindSuccessorRequest(n, id, {})

\* Lookups of every identifier at every process of a stabilized ring.
SpecLookup == InitLookup /\ [][NextLookup]_vars

\* ---------------------------------------------------------------- C18

\* C18: in a stabilized ring whose fingers are all fixed, every FindSuccessor
\* call, at any process and for any identifier, answers with hops <= m.
C18_HopBound == last.op = "find" => last.resp.hops <= m

\* A lookup that took m hops and found the owner of the identifier
C18_Witness ==
    /\ last.op = "find"
    /\ last.resp.hops = m
    /\ Len(last.resp.path) = m
    /\ last.resp.node = Owner(last.key_id)

\* ---------------------------------------------------------------- C19

\* C19: the hand-off that Notify(n) starts at s when n replaces an existing
\* predecessor removes from s's primary store only keys whose hash lies in
\* (old predecessor, n]: every primary key whose hash lies in (n.id, s.id]
\* stays in s's primary store.
C19_HandoffRange ==
    [][\A s, n \in Node :
          (<<s, n>> \in handoff /\ <<s, n>> \notin handoff')
          => \A k \in DOMAIN data_store[s] :
                 in_range(hash(k), Id(n), Id(s), TRUE)
                 => k \in DOMAIN data_store'[s]]_vars

\* ---------------------------------------------------------------- C20

\* C20: with no crashes, every key that was Put successfully and not
\* deleted is at all times in the primary store of at least one process.
C20_NoKeyLoss ==
    \A k \in Key :
        acked[k] # None => \E n \in Alive : k \in DOMAIN data_store[n]

\* ---------------------------------------------------------------- C21

\* The _stabilize round of self adopts its successor's predecessor
Adopts(self) ==
    LET s == successor[self]
        p == predecessor[s]
    IN  /\ phase[self] = "running"
        /\ Id(s) # Id(self)
        /\ is_node_alive(s)
        /\ p # None
        /\ Id(p) # Id(self)
        /\ in_range(Id(p), Id(self), Id(s), FALSE)

\* C21: in a Stabilize round in which a process adopts its successor's
\* predecessor p as its new successor, the Notify(self) of that round is
\* handled by p (p alive): when p has no predecessor, or the process lies
\* between p's predecessor and p, p's predecessor is the process after the
\* round, and the previous successor's predecessor is as it was.
C21_NotifyNewSuccessor ==
    [][\A n \in Node :
          LET s == successor[n]
              p == predecessor[s]
          IN  (Adopts(n) /\ is_node_alive(p) /\ Stabilize(n))
              => /\ successor'[n] = p
                 /\ predecessor'[s] = predecessor[s]
                 /\ NotifyUpdates(p, n) => predecessor'[p] = n]_vars

\* ---------------------------------------------------------------- C22

\* C22: whenever a Stabilize round of a process completes, its successor is
\* the process itself or a process that is alive; a round that adopts the
\* successor's predecessor does not leave the successor_list empty.
C22_NoDeadSuccessor ==
    [][\A n \in Node :
          Stabilize(n)
          => /\ successor'[n] = n \/ is_node_alive(successor'[n])
             /\ Adopts(n) => successor_list'[n] # <<>>]_vars

\* ---------------------------------------------------------------- C23

\* The failure specification with stabilize loops that keep running: an
\* iteration of _stabilize_loop follows every 3 s sleep.
SpecCrashFair ==
    /\ SpecCrash
    /\ \A n \in CrashNode : WF_vars(Stabilize(n))

\* The process has fallen back to successor = self while others are alive
Detached(n) ==
    /\ phase[n] = "running"
    /\ successor[n] = n
    /\ Alive \ {n} # {}

\* C23: when a Stabilize round finds the successor dead, the new successor
\* is the first entry of the current successor_list that is alive and is not
\* the process itself, and the process itself only when there is no such
\* entry; and a process that has fallen back to successor = self while other
\* processes are alive is re-attached by a later Stabilize or Notify.
C23_HandleSuccessorFailure ==
    /\ [][\A n \in Node :
             (Stabilize(n) /\ ~is_node_alive(successor[n]))
             => LET list == successor_list[n]
                    ok(i) == Id(list[i]) # Id(n) /\ is_node_alive(list[i])
                IN  \/ \E i \in 1..Len(list) :
                           /\ ok(i)
                           /\ \A j \in 1..(i - 1) : ~ok(j)
                           /\ successor'[n] = list[i]
                    \/ /\ \A i \in 1..Len(list) : ~ok(i)
                       /\ successor'[n] = n]_vars
    /\ \A n \in Node : Detached(n) ~> ~Detached(n)

\* ---------------------------------------------------------------- C24

\* C24: a client Put received by a process that fails the owner test never
\* writes that process's primary store; its reply and the stores afterwards
\* are those of the Put forwarded to the process FindSuccessor(hash(key))
\* names ("Routing failed" when that process does not answer), and when
\* FindSuccessor names the process itself its replica store is not written
\* either.
C24_NonOwnerForwards ==
    [][(/\ last' # last
        /\ last'.op = "put"
        /\ ~responsible(last'.node, hash(last'.key)))
       => LET self == last'.node
              key == last'.key
              w == World(data_store, replica_store)
              t == FindSuccessor(self, hash(key), {self}).node
              forwarded ==
                  IF Reachable(t, {self})
                  THEN Put(w, t, key, last'.value, FALSE, 0, {self}, 2)
                  ELSE [w |-> w,
                        resp |-> PutResponse(FALSE, "Routing failed", 0, 0)]
          IN  /\ data_store'[self] = data_store[self]
              /\ Id(t) # Id(self)
                 => /\ last'.resp = forwarded.resp
                    /\ World(data_store', replica_store') = forwarded.w
              /\ Id(t) = Id(self)
                 => replica_store'[self] = replica_store[self]]_vars

\* ---------------------------------------------------------------- C25

\* The process whose primary store the last Put wrote
Writer(d1, d2) == CHOOSE o \in Node : d1[o] # d2[o]

Blocked(self) ==
    IF ~is_initialized[self] THEN {}
    ELSE LET list == Prefix(successor_list[self], replication_factor - 1)
         IN  {list[i] : i \in 1..Len(list)} \cap
             {s \in LockHeld : Id(s) # Id(self) /\ is_node_alive(s)}

\* The Put handler of the responsible process self: the stores when it
\* returns, its response, and the SyncReplica handlers it leaves blocked.
PutServed(self, key, value) ==
    LET r == PutLocal(World(data_store, replica_store), self, key, value,
                      FALSE, 0, LockHeld)
    IN  [data |-> r.w.data,
         rep |-> [n \in Node |-> IF n \in Blocked(self) THEN replica_store[n]
                                 ELSE r.w.rep[n]],
         resp |-> r.resp,
         blocked |-> {[from |-> self, to |-> s, key |-> key, value |-> value,
                       state |-> "blocked", locked |-> FALSE,
                       version |-> r.resp.version, timestamp |-> now] :
                      s \in Blocked(self)}]

\* A client's Put(key, value) sent to the responsible process self
PutAtOwner(self, key, value) ==
    /\ is_node_alive(self)
    /\ self \notin LockHeld
    /\ responsible(self, hash(key))
    /\ StoredVersion(data_store, self, key) < MaxVersion
    /\ LET r == PutServed(self, key, value)
       IN  /\ data_store' = r.data
           /\ replica_store' = r.rep
           /\ calls' = calls \cup r.blocked
           /\ last' = [op |-> "put", node |-> self, key |-> key,
                       value |-> value, resp |-> r.resp]
           /\ acked' = [acked EXCEPT ![key] = value]
    /\ UNCHANGED <<routing, fingers, is_initialized, handoff, now>>

\* The Put handler of the responsible callee of a forwarded Put runs; the
\* caller returns the response and releases its mutex.
PutServe(c) ==
    /\ c \in calls
    /\ c.state = "waiting"
    /\ is_node_alive(c.to)
    /\ c.to \notin LockHeld
    /\ responsible(c.to, hash(c.key))
    /\ LET r == PutServed(c.to, c.key, c.value)
       IN  /\ data_store' = r.data
           /\ replica_store' = r.rep
           /\ calls' = (calls \ {c}) \cup r.blocked
           /\ last' = [op |-> "put", node |-> c.from, key |-> c.key,
                       value |-> c.value, resp |-> r.resp]
           /\ acked' = [acked EXCEPT ![c.key] = c.value]
    /\ UNCHANGED <<routing, fingers, is_initialized, handoff, now>>

\* A SyncReplica handler thread that was blocked on its process's mutex gets
\* the mutex and writes its replica.
SyncLate(c) ==
    /\ c \in calls
    /\ c.state = "blocked"
    /\ is_node_alive(c.to)
    /\ c.to \notin LockHeld
    /\ LET w == SyncReplica(World(data_store, replica_store), c.to, c.key,
                            c.value, c.version, c.timestamp)
       IN  /\ data_store' = w.data
           /\ replica_store' = w.rep
    /\ calls' = calls \ {c}
    /\ UNCHANGED <<routing, fingers, is_initialized, handoff, now, history>>

NextRace ==
    \/ \E n \in KVNode : MarkInitialized(n)
    \/ \E n \in KVNode, k \in DataKey : PutForward(n, k, "v1")
    \/ \E c \in calls : PutServe(c)
    \/ \E n \in KVNode, k \in DataKey : PutAtOwner(n, k, "v2")
    \/ \E c \in calls : SyncLate(c)

\* Two clients putting the same key on a stabilized ring of two, one through
\* the process that is not the owner and one at the owner, with the
\* SyncReplica handlers scheduled as the mutex of the replica allows.
SpecRace == InitKV /\ [][NextRace]_vars

\* ---------------------------------------------------------------- C26

\* C26: two concurrent primary Puts of a key at its owner receive
\* consecutive versions and the owner's primary entry is the value of the
\* Put with the higher version; once both have returned and no SyncReplica
\* handler is pending, every replica of the key holds the value and version
\* of the owner's primary entry.
C26_Linearized ==
    /\ [][(last' # last /\ last'.op = "put" /\ last'.resp.success)
          => LET o == Owner(hash(last'.key))
             IN  /\ last'.resp.version
                        = StoredVersion(data_store, o, last'.key) + 1
                 /\ data_store'[o][last'.key]
                        = DataItem(last'.value, last'.resp.version, now)]_vars
    /\ [](calls = {}
          => \A k \in Key, s \in Node :
                 LET o == Owner(hash(k))
                 IN  (k \in DOMAIN data_store[o] /\ k \in DOMAIN replica_store[s])
                     => /\ replica_store[s][k].value = data_store[o][k].value
                        /\ replica_store[s][k].version
                               = data_store[o][k].version)

\* ---------------------------------------------------------------- SpecMove

\* A stabilized, initialized ring of three on which every key has been Put
\* twice, so that every primary entry and every replica has version 2
InitMove ==
    /\ StableRing(HandoffRing)
    /\ is_initialized = [n \in Node |-> n \in HandoffRing]
    /\ LET empty == World([n \in Node |-> EmptyDict],
                          [n \in Node |-> EmptyDict])
           w == PutEach(PutEach(empty, Key, "v1"), Key, "v2")
       IN  /\ data_store = w.data
           /\ replica_store = w.rep
    /\ last = [op |-> "none"]
    /\ acked = [k \in Key |-> "v2"]

NextMove ==
    \/ \E via \in HandoffRing : Listen(HandoffJoiner, via)
    \/ JoinRequest(HandoffJoiner)
    \/ JoinReply(HandoffJoiner)
    \/ MarkInitialized(HandoffJoiner)
    \/ \E n \in HandoffNode : Stabilize(n)
    \/ \E n, nn \in HandoffNode : Redistribute(n, nn)
    \/ \E n \in HandoffNode :
           (\A o \in Node : phase[o] # "crashed") /\ Crash(n)

\* A process joins a stabilized ring of three that holds keys of version 2;
\* at most one process crashes.
SpecMove == InitMove /\ [][NextMove]_vars

\* ---------------------------------------------------------------- C27

\* C27: the version stored for a key in a primary store does not decrease
\* when ownership moves: a key that a hand-off of process s adds to the
\* primary store of another process is stored there with the version it had
\* at s, and no step of a process (replica promotion included) lowers the
\* version of an entry of its own primary store.
C27_VersionsSurvive ==
    [][\A k \in Key :
          /\ \A s, n \in Node :
                 (/\ <<s, n>> \in handoff
                  /\ <<s, n>> \notin handoff'
                  /\ k \in DOMAIN data_store[s]
                  /\ \E o \in Node \ {s} :
                         k \in DOMAIN data_store'[o] /\ k \notin DOMAIN data_store[o])
                 => \A o \in Node \ {s} :
                        (k \in DOMAIN data_store'[o] /\ k \notin DOMAIN data_store[o])
                        => data_store'[o][k].version = data_store[s][k].version
          /\ \A n \in Node :
                 (k \in DOMAIN data_store[n] /\ k \in DOMAIN data_store'[n])
                 => data_store'[n][k].version >= data_store[n][k].version]_vars

\* ---------------------------------------------------------------- C28

\* C28: when a Stabilize round of a process with a predecessor finds its
\* successor dead and runs _promote_replicas_on_failure, every entry of its
\* replica_store whose key hashes into (predecessor.id, self.id] is
\* afterwards in its primary store with value, version and timestamp
\* unchanged and no longer in its replica_store, every other entry of its
\* replica_store is untouched, and every alive successor among the first
\* R-1 of its successor_list holds each promoted key with that same value
\* and version.
C28_PromoteReplicas ==
    [][\A n \in Node :
          (/\ Stabilize(n)
           /\ ~is_node_alive(successor[n])
           /\ predecessor[n] # None)
          => LET promoted ==
                     {k \in DOMAIN replica_store[n] :
                         in_range(hash(k), Id(predecessor[n]), Id(n), TRUE)}
                 list == Prefix(successor_list'[n], replication_factor - 1)
             IN  /\ \A k \in promoted :
                        /\ k \in DOMAIN data_store'[n]
                        /\ data_store'[n][k] = replica_store[n][k]
                        /\ \A i \in 1..Len(list) :
                               (Id(list[i]) # Id(n) /\ is_node_alive(list[i]))
                               => /\ k \in DOMAIN replica_store'[list[i]]
                                  /\ replica_store'[list[i]][k]
                                         = replica_store[n][k]
                 /\ DOMAIN replica_store'[n]
                        = (DOMAIN replica_store[n]) \ promoted
                 /\ \A k \in (DOMAIN replica_store[n]) \ promoted :
                        replica_store'[n][k] = replica_store[n][k]]_vars

\* n3, whose successor n4 has crashed, has promoted the replica of 'x' it
\* received from n2 (version 1) and re-sent it to its new successor n1.
C28_Witness ==
    /\ phase["n4"] = "crashed"
    /\ successor["n3"] = "n1"
    /\ predecessor["n3"] = "n2"
    /\ "x" \in DOMAIN data_store["n3"]
    /\ data_store["n3"]["x"].version = 1
    /\ "x" \notin DOMAIN replica_store["n3"]
    /\ "alpha" \in DOMAIN replica_store["n3"]
    /\ "x" \in DOMAIN replica_store["n1"]
    /\ replica_store["n1"]["x"] = data_store["n3"]["x"]

\* ---------------------------------------------------------------- SpecFind

\* The key_id values of FindSuccessor requests: identifiers, and values that
\* the handler has to reduce
RequestId == 0..(2 * max_nodes - 1)

NextFind ==
    /\ last.op = "none"
    /\ \E n \in Node, id \in RequestId :
           \E busy \in Busy(n) : FindSuccessorRequest(n, id, busy)

\* One lookup of any key_id at any process of a stabilized ring, while one
\* peer may be too slow to answer.
SpecFind == InitLookup /\ [][NextFind]_vars

\* ---------------------------------------------------------------- C29

\* C29: FindSuccessor(key_id) at n works on key_id mod N.  When that lies in
\* (n.id, successor.id], or ClosestPrecedingFinger answers n itself, the
\* reply is {node: n's successor, path: [n.id], hops: 1}; when the request
\* is forwarded and answered, the reply is the forwarded reply with n.id
\* prepended to path and hops increased by 1; hops always equals the length
\* of path.
C29_LocalTermination ==
    last.op = "find" =>
        LET n == last.node
            k == last.key_id % max_nodes
            r == last.resp
            next_node == closest_preceding_finger(n, k)
            local == in_range(k, Id(n), Id(successor[n]), TRUE)
        IN  /\ r.hops = Len(r.path)
            /\ r.path[1] = Id(n)
            /\ (local \/ Id(next_node) = Id(n))
               => r = [node |-> successor[n], path |-> <<Id(n)>>, hops |-> 1]
            /\ (~local /\ Id(next_node) # Id(n)
                /\ Reachable(next_node, last.busy))
               => LET f == FindSuccessor(next_node, k, last.busy)
                  IN  r = [node |-> f.node, path |-> <<Id(n)>> \o f.path,
                           hops |-> f.hops + 1]

\* A request whose key_id had to be reduced was forwarded at least once and
\* answered with the owner of the reduced identifier.
C29_Witness ==
    /\ last.op = "find"
    /\ last.key_id >= max_nodes
    /\ last.busy = {}
    /\ last.resp.hops >= 2
    /\ last.resp.hops = Len(last.resp.path)
    /\ last.resp.node = Owner(last.key_id % max_nodes)
    /\ Id(last.resp.node) # last.resp.path[last.resp.hops]

\* ---------------------------------------------------------------- C30

\* C30: in a stabilized ring FindSuccessor(k) answers, whichever alive
\* process is asked, the first alive process clockwise from k, a process
\* owning its own identifier; so FindSuccessor(n.id) asked at n answers n.
C30_LookupAgreement ==
    last.op = "find" => last.resp.node = Owner(last.key_id)

\* ---------------------------------------------------------------- SpecFinger

\* The processes of the finger specifications
FingerNode == {"n1", "n2", "n4"}

\* The ring of the processes of S after stabilization has come to rest,
\* before any finger has been fixed
UnfixedRing(S) ==
    /\ phase = [n \in Node |-> IF n \in S THEN "running" ELSE "off"]
    /\ successor = [n \in Node |-> IF n \in S THEN NextAlive(n) ELSE n]
    /\ predecessor = [n \in Node |->
                         IF n \in S /\ S # {n} THEN PrevAlive(n) ELSE None]
    /\ successor_list = [n \in Node |->
                            IF n \notin S THEN <<n>>
                            ELSE build_successor_list(n, successor[n])]
    /\ finger_table = [n \in Node |-> [i \in 0..(m - 1) |-> None]]
    /\ next_finger = [n \in Node |-> 0]
    /\ join_address = [n \in Node |-> None]
    /\ join_reply = [n \in Node |-> None]
    /\ handoff = {}
    /\ now = 1
    /\ calls = {}
    /\ is_initialized = [n \in Node |-> n \in S]
    /\ data_store = [n \in Node |-> EmptyDict]
    /\ replica_store = [n \in Node |-> EmptyDict]
    /\ last = [op |-> "none"]
    /\ acked = [k \in Key |-> None]

\* A stabilized ring of three right after start_background_threads: no
\* finger has been fixed yet
InitFinger == UnfixedRing(FingerNode)

\* One call of _closest_preceding_finger(key_id) at self
ClosestPrecedingFingerCall(self, key_id) ==
    /\ is_node_alive(self)
    /\ last' = [op |-> "closest", node |-> self, key_id |-> key_id,
                result |-> closest_preceding_finger(self, key_id)]
    /\ UNCHANGED <<routing, fingers, stores, is_initialized, handoff, now,
                   calls, acked>>

NextFinger ==
    /\ last.op = "none"
    /\ \/ \E n \in FingerNode : FixFinger(n)
       \/ \E n \in FingerNode :
              (\A o \in Node : phase[o] # "crashed") /\ Crash(n)
       \/ \E n \in FingerNode, id \in Identifier :
              ClosestPrecedingFingerCall(n, id)

\* Fingers being fixed on a ring of three in which one process may crash,
\* and one call of _closest_preceding_finger.
SpecFinger == InitFinger /\ [][NextFinger]_vars

\* ---------------------------------------------------------------- C31

\* C31: ClosestPrecedingFinger(key_id) answers the populated finger of
\* highest index whose id differs from self.id, lies strictly inside
\* (self.id, key_id) and is alive; if there is none, the first
\* successor_list entry passing the same test; otherwise self.  So every
\* answer other than self is alive and strictly between self and key_id
\* clockwise.
C31_ClosestPrecedingFinger ==
    last.op = "closest" =>
        LET n == last.node
            k == last.key_id
            r == last.result
            list == successor_list[n]
            ok(f) == /\ Id(f) # Id(n)
                     /\ in_range(Id(f), Id(n), k, FALSE)
                     /\ is_node_alive(f)
            F == {i \in 0..(m - 1) :
                     finger_table[n][i] # None /\ ok(finger_table[n][i])}
            S == {i \in 1..Len(list) : ok(list[i])}
        IN  /\ F # {} => \E i \in F : /\ r = finger_table[n][i]
                                      /\ \A j \in F : j <= i
            /\ (F = {} /\ S # {}) => \E i \in S : /\ r = list[i]
                                                  /\ \A j \in S : i <= j
            /\ (F = {} /\ S = {}) => r = n
            /\ r # n => /\ is_node_alive(r)
                        /\ 0 < Dist(Id(n), Id(r))
                        /\ Dist(Id(n), Id(r)) < Dist(Id(n), k)

\* The answer is a finger although a finger of higher index lies inside
\* the interval too: that one has crashed.
C31_Witness ==
    /\ last.op = "closest"
    /\ last.result # last.node
    /\ \E i, j \in 0..(m - 1) :
           /\ i < j
           /\ finger_table[last.node][i] = last.result
           /\ finger_table[last.node][j] # None
           /\ phase[finger_table[last.node][j]] = "crashed"
           /\ in_range(Id(finger_table[last.node][j]), Id(last.node),
                       last.key_id, FALSE)

\* ---------------------------------------------------------------- SpecFix

\* A stabilized ring of any of the processes, no finger fixed yet
InitFix == \E S \in (SUBSET Node) \ {{}} : UnfixedRing(S)

NextFix == \E n \in Node : FixFinger(n)

\* The fix-fingers loops of a stabilized ring.
SpecFix == InitFix /\ [][NextFix]_vars

\* ---------------------------------------------------------------- C32

\* The identifier finger i of n points at
FingerStart(n, i) == (Id(n) + 2 ^ i) % max_nodes

\* C32: in a stabilized ring every iteration of the fix-fingers loop of n
\* sets finger_table[next_finger] to the first alive process clockwise from
\* (n.id + 2^next_finger) mod N, leaves the other fingers alone and moves
\* next_finger to the next index modulo m; so every finger that has been
\* visited is, and remains, the owner of its identifier.
C32_FingerCorrectness ==
    /\ [][\A n \in Node :
             FixFinger(n)
             => LET i == next_finger[n]
                IN  /\ finger_table'[n][i] = Owner(FingerStart(n, i))
                    /\ next_finger'[n] = (i + 1) % m
                    /\ \A j \in 0..(m - 1) :
                           j # i => finger_table'[n][j] = finger_table[n][j]]_vars
    /\ [](\A n \in Alive, i \in 0..(m - 1) :
             finger_table[n][i] # None
             => finger_table[n][i] = Owner(FingerStart(n, i)))

\* In a ring of two or more every finger of every process has been visited,
\* some process is in its second round, and some finger is its own process.
C32_Witness ==
    /\ Cardinality(Alive) >= 2
    /\ \A n \in Alive, i \in 0..(m - 1) : finger_table[n][i] # None
    /\ \E n \in Alive : next_finger[n] = 1
    /\ \E n \in Alive, i \in 0..(m - 1) : finger_table[n][i] = n

\* ---------------------------------------------------------------- SpecJoin

\* A stabilized, initialized ring of one, two or three processes holding
\* every key, replicated
InitJoin ==
    /\ \E S \in (SUBSET HandoffRing) \ {{}} : StableRing(S)
    /\ is_initialized = [n \in Node |-> is_node_alive(n)]
    /\ LET w == PutEach(World([n \in Node |-> EmptyDict],
                              [n \in Node |-> EmptyDict]), Key, "v1")
       IN  /\ data_store = w.data
           /\ replica_store = w.rep
    /\ last = [op |-> "none"]
    /\ acked = [k \in Key |-> "v1"]

NextJoin ==
    \/ \E via \in HandoffRing : Listen(HandoffJoiner, via)
    \/ JoinRequest(HandoffJoiner)
    \/ JoinReply(HandoffJoiner)
    \/ \E n \in HandoffNode : Stabilize(n)
    \/ \E n, nn \in HandoffNode : Redistribute(n, nn)

\* A process joins a stabilized ring that holds keys, through any member.
SpecJoin == InitJoin /\ [][NextJoin]_vars

\* ---------------------------------------------------------------- C33

\* The Join handler of n splices joining_node in
Splices(n, joining_node) ==
    \/ in_range(Id(joining_node), Id(n), Id(successor[n]), FALSE)
    \/ Id(successor[n]) = Id(n)

\* C33: a Join(j) that is answered success was handled by a process n for
\* which j.id lies strictly inside (n.id, successor.id) or whose successor
\* is n itself (the process the request was sent to, when that one
\* qualifies); n's successor becomes j, the reply carries n's previous
\* successor, and no predecessor, no other process's successor and no
\* store is changed.
C33_JoinSplice ==
    [][\A j \in Node :
          JoinRequest(j)
          => LET via == join_address[j]
             IN  /\ Splices(via, j)
                    => /\ phase'[j] = "joining"
                       /\ successor'[via] = j
                       /\ join_reply'[j] = successor[via]
                 /\ phase'[j] = "joining"
                    => \E n \in Alive :
                           /\ Splices(n, j)
                           /\ successor'[n] = j
                           /\ join_reply'[j] = successor[n]
                           /\ \A o \in Node \ {n} : successor'[o] = successor[o]
                 /\ predecessor' = predecessor
                 /\ data_store' = data_store
                 /\ replica_store' = replica_store]_vars

\* The Join was forwarded and accepted by a member that holds replicas:
\* its successor is the joining process, which waits for the reply naming
\* the member's previous successor.
C33_Witness ==
    /\ phase[HandoffJoiner] = "joining"
    /\ \E n \in HandoffRing :
           /\ n # join_address[HandoffJoiner]
           /\ successor[n] = HandoffJoiner
           /\ replica_store[n] # EmptyDict
           /\ predecessor[n] # None
           /\ join_reply[HandoffJoiner] \in HandoffRing \ {n}

\* ---------------------------------------------------------------- C34

\* Join handler chain started at via for a NodeInfo sent by an endpoint
\* outside Node whose address hashes to new_id.  The requests drawn are the
\* ones no member accepts, so the handlers change no routing state; the
\* JoinResponse is kept in last.
JoinCall(via, new_id) ==
    /\ phase[via] = "running"
    /\ ~JoinWalk(via, new_id, 1).success
    /\ last' = [op |-> "join", node |-> via, new_id |-> new_id,
                resp |-> JoinWalk(via, new_id, 1)]
    /\ UNCHANGED <<routing, fingers, stores, is_initialized, join_address,
                   join_reply, handoff, now, calls, acked>>

NextCollide ==
    \/ NextJoin
    \/ \E via \in HandoffNode, new_id \in Identifier : JoinCall(via, new_id)

SpecCollide == InitJoin /\ [][NextCollide]_vars

\* The processes that are members of the ring
Members == {n \in Node : phase[n] = "running"}

\* Every member's successor is the next member clockwise
MembersStabilized ==
    \A n \in Members :
        IF Members = {n} THEN successor[n] = n
        ELSE /\ successor[n] \in Members \ {n}
             /\ \A o \in Members \ {n} :
                    Dist(Id(n), Id(successor[n])) <= Dist(Id(n), Id(o))

\* C34: in a stabilized ring of K members, a Join sent to any member is
\* accepted with success after at most K-1 forwards, whatever the joining id,
\* the id of an existing member included.
C34_JoinTerminates ==
    [][\A via \in HandoffNode, new_id \in Identifier :
          (/\ MembersStabilized
           /\ \/ JoinCall(via, new_id)
              \/ \E j \in HandoffNode :
                    /\ JoinRequest(j)
                    /\ join_address[j] = via
                    /\ phase[via] = "running"
                    /\ Id(j) = new_id)
          => /\ JoinWalk(via, new_id, 1).success
             /\ JoinWalk(via, new_id, 1).forwards <= Cardinality(Members) - 1]_vars

\* ---------------------------------------------------------------- C35

\* Notify handler at self for the NodeInfo of the running process node, with
\* its NotifyResponse kept in last.
Notify(self, node) ==
    /\ is_node_alive(self)
    /\ phase[node] = "running"
    /\ node # self
    /\ predecessor' = IF NotifyUpdates(self, node)
                      THEN [predecessor EXCEPT ![self] = node]
                      ELSE predecessor
    /\ handoff' = IF NotifyHandsOff(self, node)
                  THEN handoff \cup {<<self, node>>}
                  ELSE handoff
    /\ last' = [op |-> "notify", node |-> self, from |-> node,
                resp |-> [success |-> TRUE]]
    /\ UNCHANGED <<phase, successor, successor_list, fingers, stores,
                   is_initialized, join_address, join_reply, now, calls, acked>>

NextNotify ==
    \/ NextJoin
    \/ \E self \in HandoffNode, node \in HandoffNode : Notify(self, node)

SpecNotify == InitJoin /\ [][NextNotify]_vars

\* Identifier x lies strictly inside the modular interval (a, b)
StrictlyInside(x, a, b) == 0 < Dist(a, x) /\ Dist(a, x) < Dist(a, b)

\* C35: Notify(n) at a process sets its predecessor to n if and only if the
\* predecessor is absent or n's id lies strictly inside (predecessor id, own
\* id), and leaves it unchanged otherwise; the reply is success; the handler
\* changes no successor, successor_list or finger_table; and it starts the
\* hand-off to n only when an existing predecessor other than n was replaced.
C35_NotifyRule ==
    [][\A self \in HandoffNode, node \in HandoffNode :
          Notify(self, node) =>
              LET old == predecessor[self]
                  update == \/ old = None
                            \/ StrictlyInside(Id(node), Id(old), Id(self))
              IN  /\ predecessor' =
                         IF update THEN [predecessor EXCEPT ![self] = node]
                         ELSE predecessor
                  /\ last'.resp.success
                  /\ UNCHANGED <<successor, successor_list, finger_table>>
                  /\ handoff' \subseteq handoff \cup {<<self, node>>}
                  /\ handoff' # handoff =>
                         /\ old \notin {None, node}
                         /\ predecessor'[self] = node]_vars

\* A Notify replaced an existing predecessor and started the hand-off
C35_Witness ==
    /\ last.op = "notify"
    /\ predecessor[last.node] = last.from
    /\ <<last.node, last.from>> \in handoff

\* ---------------------------------------------------------------- C36

\* The data_store keys of self that TransferKeys(start_id, end_id) extracts
Transferred(self, start_id, end_id) ==
    {key \in DOMAIN data_store[self] :
        in_range(hash(key), start_id, end_id, TRUE)}

\* TransferKeys handler at self, with its TransferKeysResponse kept in last.
TransferKeys(self, start_id, end_id) ==
    /\ is_node_alive(self)
    /\ LET keys == Transferred(self, start_id, end_id)
       IN  /\ data_store' =
                  [data_store EXCEPT ![self] =
                      [key \in DOMAIN @ \ keys |-> @[key]]]
           /\ last' = [op |-> "transfer", node |-> self,
                       start_id |-> start_id, end_id |-> end_id,
                       resp |-> [items |-> [key \in keys |->
                                               data_store[self][key]],
                                 success |-> TRUE]]
    /\ UNCHANGED <<routing, fingers, replica_store, is_initialized, handoff,
                   now, calls, acked>>

NextTransfer ==
    \E self \in HandoffRing, start_id \in Identifier, end_id \in Identifier :
        TransferKeys(self, start_id, end_id)

SpecTransfer == InitJoin /\ [][NextTransfer]_vars

\* C36: TransferKeys(start, end) with start # end removes from the primary
\* store, and returns, exactly the primary keys whose hash lies in the modular
\* interval [start, end], both endpoints included; the reply is success and
\* the replica stores and the routing state are unchanged.
C36_TransferClosedInterval ==
    [][\A self \in HandoffRing, start_id \in Identifier,
          end_id \in Identifier :
          (TransferKeys(self, start_id, end_id) /\ start_id # end_id) =>
              LET keys == {key \in DOMAIN data_store[self] :
                              Dist(start_id, hash(key))
                                  <= Dist(start_id, end_id)}
              IN  /\ DOMAIN data_store'[self] = DOMAIN data_store[self] \ keys
                  /\ last'.resp.items =
                         [key \in keys |-> data_store[self][key]]
                  /\ last'.resp.success
                  /\ UNCHANGED <<routing, replica_store>>]_vars

\* ---------------------------------------------------------------- C37

\* C37: a Get at a process that holds the key in its primary or its replica
\* store answers found from that store, the primary entry when both hold the
\* key, and sends no RPC; and no Get, answered locally or forwarded, changes
\* a primary store, a replica store or the routing state of any process.
C37_GetLocalPath ==
    [][\A n \in KVNode, k \in Key :
          ClientGet(n, k) =>
              LET run == GetRun(World(data_store, replica_store), n, k, {}, 1)
                  held_in == IF k \in DOMAIN data_store[n] THEN data_store[n]
                             ELSE replica_store[n]
              IN  /\ UNCHANGED <<routing, fingers, stores>>
                  /\ k \in DOMAIN data_store[n] \cup DOMAIN replica_store[n] =>
                         /\ last'.resp = GetResponse(TRUE, held_in[k].value,
                                                     held_in[k].version)
                         /\ run.rpcs = 0]_vars

\* A Get was answered at a process whose two stores hold different entries
\* for the key
C37_Witness ==
    /\ last.op = "get"
    /\ last.key \in DOMAIN data_store[last.node]
    /\ last.key \in DOMAIN replica_store[last.node]
    /\ data_store[last.node][last.key].value
           # replica_store[last.node][last.key].value
    /\ last.resp.value = data_store[last.node][last.key].value

\* ---------------------------------------------------------------- C38

\* C38: in a ring of two or more processes a Get for a key stored on no
\* process answers found = false without any of its Get RPCs ending by a
\* timeout: the successor-list fallback does not make the processes query
\* one another in a cycle.
C38_AbsentGetTerminates ==
    [][\A n \in KVNode, k \in Key :
          (/\ ClientGet(n, k)
           /\ \A o \in Node : k \notin DOMAIN data_store[o]
                                    \cup DOMAIN replica_store[o])
          => LET run == GetRun(World(data_store, replica_store), n, k, {}, 1)
             IN  /\ ~run.resp.found
                 /\ ~run.timed_out]_vars

\* ---------------------------------------------------------------- C39

\* Delete(key, is_replica) handled at self, sent by a client (is_replica =
\* False) or by a peer's Delete handler (is_replica = True)
DeleteCall(self, key, is_replica) ==
    /\ is_node_alive(self)
    /\ LET r == Delete(World(data_store, replica_store), self, key, is_replica)
       IN  /\ data_store' = r.w.data
           /\ replica_store' = r.w.rep
           /\ last' = [op |-> "delete", node |-> self, key |-> key,
                       is_replica |-> is_replica, resp |-> r.resp]
           /\ acked' = IF r.resp.success /\ ~is_replica
                       THEN [acked EXCEPT ![key] = None]
                       ELSE acked
    /\ UNCHANGED <<routing, fingers, is_initialized, handoff, now, calls>>

NextRemove ==
    \/ \E n \in KVNode : MarkInitialized(n)
    \/ \E n \in KVNode, k \in Key : ClientPut(n, k, "v1")
    \/ \E n \in KVNode, k \in Key : SyncReplicaCall(n, k, "v1", 1, now)
    \/ \E n \in KVNode, k \in Key, is_replica \in BOOLEAN :
           DeleteCall(n, k, is_replica)

\* Puts, replica writes and Deletes of both kinds on a stabilized ring of two.
SpecRemove == InitKV /\ [][NextRemove]_vars

\* The dict d without key
Without(d, key) == [k \in DOMAIN d \ {key} |-> d[k]]

\* The successor_list entries of n other than n
ListedPeers(n) ==
    {successor_list[n][i] : i \in 1..Len(successor_list[n])} \ {n}

\* C39: Delete(key, is_replica = true) removes the key from the replica store
\* of the process only, answers success iff it was there, and leaves every
\* primary store unchanged; Delete(key, is_replica = false) answers success
\* iff the key was in the primary store of the process, removes it from there
\* and from the replica store of every other process on its successor_list;
\* a Delete answered "Not found" changes no store of any process.
C39_DeleteSemantics ==
    [][\A n \in KVNode, k \in Key, is_replica \in BOOLEAN :
          DeleteCall(n, k, is_replica) =>
              IF is_replica
              THEN /\ last'.resp.success = (k \in DOMAIN replica_store[n])
                   /\ data_store' = data_store
                   /\ replica_store' =
                          [replica_store EXCEPT ![n] = Without(@, k)]
              ELSE /\ last'.resp.success = (k \in DOMAIN data_store[n])
                   /\ IF k \in DOMAIN data_store[n]
                      THEN /\ data_store' =
                                  [data_store EXCEPT ![n] = Without(@, k)]
                           /\ replica_store' =
                                  [o \in Node |->
                                      IF o \in ListedPeers(n)
                                      THEN Without(replica_store[o], k)
                                      ELSE replica_store[o]]
                      ELSE /\ last'.resp.message = "Not found"
                           /\ UNCHANGED stores]_vars

\* A primary Delete succeeded at a process that still holds a replica entry
\* of the key, and no process on its successor_list holds one
C39_Witness ==
    /\ last.op = "delete"
    /\ ~last.is_replica
    /\ last.resp.success
    /\ last.key \notin DOMAIN data_store[last.node]
    /\ last.key \in DOMAIN replica_store[last.node]
    /\ \A o \in ListedPeers(last.node) :
           last.key \notin DOMAIN replica_store[o]

\* ---------------------------------------------------------------- C40

\* C40: a primary Put handled by a process whose is_initialized is false
\* stores the item in its primary store, writes no replica on any process
\* and reports 0 replicas; a primary Put handled by an initialized process
\* writes the item to the replica store of every other process on its
\* successor_list that is not waiting for this Put's reply; and
\* is_initialized never changes from true to false.
C40_InitializationGate ==
    [][/\ \A n \in Node : is_initialized[n] => is_initialized'[n]
       /\ \A n \in KVNode, k \in Key, h \in KVNode :
             (/\ ClientPut(n, k, "v1")
              /\ last'.resp.success
              /\ data_store'[h] # data_store[h])
             => /\ k \in DOMAIN data_store'[h]
                /\ IF is_initialized[h]
                   THEN \A o \in ListedPeers(h) \ {n} :
                            /\ k \in DOMAIN replica_store'[o]
                            /\ replica_store'[o][k] = data_store'[h][k]
                   ELSE /\ replica_store' = replica_store
                        /\ last'.resp.replicas = 0]_vars

\* A Put was stored with no replica by a process that is not initialized,
\* next to a peer that is
C40_Witness ==
    /\ last.op = "put"
    /\ last.resp.success
    /\ last.resp.replicas = 0
    /\ last.key \in DOMAIN data_store[last.node]
    /\ ~is_initialized[last.node]
    /\ \A o \in ListedPeers(last.node) :
           /\ is_initialized[o]
           /\ last.key \notin DOMAIN replica_store[o]

====
